---- MODULE Spec2Model ----
(***************************************************************************)
(* MarketSeer: the field resolution engine.                                *)
(*                                                                         *)
(*   BaseMapper      backend/app/mapping/base_mapper.py                    *)
(*   ClientManager   backend/app/data_sources/client_manager.py            *)
(*   map_stock_info  backend/app/mapping/stocks/info_mapping.py            *)
(*   StocksService   backend/app/services/stocks_service.py                *)
(*   convert_to_date backend/app/utils/timer.py                            *)
(*   WorkflowManager src/data/workflows/workflow_manager.py                *)
(*   StockWorkflow   src/data/workflows/stock_workflow.py                  *)
(*   BaseCollector   src/data/collectors/base_collector.py                 *)
(*                                                                         *)
(* Python values are records with a kind field k, so that values of        *)
(* different Python types can be compared.                                 *)
(***************************************************************************)
EXTENDS Integers, Sequences, FiniteSets, TLC

VARIABLES
    field_mapping,          \* BaseMapper.field_mapping: field -> fallback chain
    api_configs,            \* BaseMapper.api_configs: api name -> config
    resp,                   \* what each provider endpoint answers (environment)
    clients,                \* ClientManager._clients: data sources instantiated
    params,                 \* per call: the caller's params dict
    pc,                     \* per call: position inside map_all_fields
    result,                 \* per call: local result
    pending_fields,         \* per call: local pending_fields
    max_depth,              \* per call: local max_depth
    priority_index,         \* per call: loop variable
    api_cache,              \* per call: local api_cache of the current depth
    apis_to_fetch,          \* per call: apis of the current depth not yet fetched
    to_eval,                \* per call: rest of list(pending_fields) to evaluate
    successfully_fetched,   \* per call: local successfully_fetched
    fetch_log,              \* per call: history of client.fetch invocations
    events,                 \* per call: history of _fetch_api calls and evaluations
    ex_raw,                 \* _extract_value: argument raw_data
    ex_path,                \* _extract_value: argument field_path (split form)
    ex_out,                 \* _extract_value: returned value
    info_symbol,            \* map_stock_info: argument symbol (its digits)
    info_data,              \* what each provider answers map_stock_info (environment)
    info_pc,                \* map_stock_info: position
    info_index,             \* map_stock_info: position in API_PRIORITY_CONFIG
    info_result,            \* map_stock_info: local result
    missing_fields,         \* map_stock_info: local missing_fields
    info_calls,             \* map_stock_info: history of fetch_func invocations
    date_value,             \* convert_to_date: argument value
    tz_offset,              \* host time zone: seconds east of UTC
    date_out,               \* convert_to_date: returned value
    wf_initialized,         \* WorkflowManager._initialized
    wf_collectors,          \* WorkflowManager.collectors: the keys, in dict order
    wf_storage,             \* WorkflowManager.storage is not None
    wf_workflow,            \* WorkflowManager.stock_workflow is not None
    wf_pc,                  \* WorkflowManager: position of the running operation
    wf_todo,                \* cleanup: collectors the loop has not reached yet
    wf_last,                \* the last operation of the manager and how it ended
    wf_touched,             \* what that operation called on collectors, storage, workflow
    wf_cleanup_kind,        \* what cleanup does on each registered object (environment)
    svc_outcome,            \* StocksService.add_stock: how it ended
    svc_upsert,             \* add_stock: the keyword arguments upsert ran with
    sw_collectors,          \* StockWorkflow.collectors: the keys, in dict order
    sw_storage_has,         \* the storage class defines batch_insert and insert
    sw_symbols,             \* collect_and_store_stock_info: argument symbols
    sw_preferred,           \* collect_and_store_stock_info: argument preferred_collector
    sw_batch_size,          \* collect_and_store_stock_info: argument batch_size
    sw_pc,                  \* collect_and_store_stock_info: position
    sw_i,                   \* collect_and_store_stock_info: loop variable i
    sw_results,             \* collect_and_store_stock_info: local results
    sw_batch,               \* _process_stock_info_batch: symbols not reached yet
    sw_batch_results,       \* _process_stock_info_batch: local results
    sw_stock_infos,         \* _process_stock_info_batch: local stock_infos
    sw_symbol,              \* _process_stock_info_batch: loop variable symbol
    sw_to_try,              \* _collect_stock_info: rest of collectors_to_try
    sw_tried,               \* history: get_stock_info calls for sw_symbol
    sw_info,                \* what _collect_stock_info returned for sw_symbol
    sw_store_calls,         \* history: storage calls of the current batch
    sw_fallback,            \* _fallback_individual_storage: stock infos not reached yet
    rt_arg,                 \* _retry_on_failure: argument max_retries
    rt_retry_delay,         \* BaseCollector.config.retry_delay
    rt_max_retries,         \* _retry_on_failure: max_retries after lines 236-237
    rt_delay,               \* _retry_on_failure: local delay
    rt_attempt,             \* _retry_on_failure: loop variable attempt
    rt_calls,               \* history: outcomes of the func calls
    rt_slept,               \* history: the delays slept
    rt_pc                   \* _retry_on_failure: position, or how it ended

vars == << field_mapping, api_configs, resp, clients, params, pc, result,
           pending_fields, max_depth, priority_index, api_cache, apis_to_fetch,
           to_eval, successfully_fetched, fetch_log, events, ex_raw, ex_path,
           ex_out,
           info_symbol, info_data, info_pc, info_index, info_result,
           missing_fields, info_calls, date_value, tz_offset, date_out,
           wf_initialized, wf_collectors, wf_storage, wf_workflow, wf_pc,
           wf_todo, wf_last, wf_touched, wf_cleanup_kind,
           svc_outcome, svc_upsert,
           sw_collectors, sw_storage_has, sw_symbols, sw_preferred, sw_batch_size,
           sw_pc, sw_i, sw_results, sw_batch, sw_batch_results, sw_stock_infos,
           sw_symbol, sw_to_try, sw_tried, sw_info, sw_store_calls, sw_fallback,
           rt_arg, rt_retry_delay, rt_max_retries, rt_delay, rt_attempt,
           rt_calls, rt_slept, rt_pc >>

mapperVars == << field_mapping, api_configs, resp, clients, params, pc, result,
                 pending_fields, max_depth, priority_index, api_cache,
                 apis_to_fetch, to_eval, successfully_fetched, fetch_log, events >>

extractVars == << ex_raw, ex_path, ex_out >>

infoVars == << info_symbol, info_data, info_pc, info_index, info_result,
               missing_fields, info_calls >>

dateVars == << date_value, tz_offset, date_out >>

wfVars == << wf_initialized, wf_collectors, wf_storage, wf_workflow, wf_pc,
            wf_todo, wf_last, wf_touched, wf_cleanup_kind >>

svcVars == << svc_outcome, svc_upsert >>

swVars == << sw_collectors, sw_storage_has, sw_symbols, sw_preferred,
            sw_batch_size, sw_pc, sw_i, sw_results, sw_batch, sw_batch_results,
            sw_stock_infos, sw_symbol, sw_to_try, sw_tried, sw_info,
            sw_store_calls, sw_fallback >>

rtVars == << rt_arg, rt_retry_delay, rt_max_retries, rt_delay, rt_attempt,
            rt_calls, rt_slept, rt_pc >>

nonMapperVars == << extractVars, infoVars, dateVars, wfVars, svcVars, swVars, rtVars >>
nonExtractVars == << mapperVars, infoVars, dateVars, wfVars, svcVars, swVars, rtVars >>
nonInfoVars == << mapperVars, extractVars, dateVars, wfVars, svcVars, swVars, rtVars >>
nonDateVars == << mapperVars, extractVars, infoVars, wfVars, svcVars, swVars, rtVars >>
nonWfVars == << mapperVars, extractVars, infoVars, dateVars, svcVars, swVars, rtVars >>
nonSvcVars == << mapperVars, extractVars, infoVars, dateVars, wfVars, swVars, rtVars >>
nonSwVars == << mapperVars, extractVars, infoVars, dateVars, wfVars, svcVars, rtVars >>
nonRtVars == << mapperVars, extractVars, infoVars, dateVars, wfVars, svcVars, swVars >>

(***************************************************************************)
(* Bounds                                                                  *)
(***************************************************************************)
MaxChain == 2       \* longest fallback chain of a plan
MaxSymbols == 2     \* longest symbols list given to StockWorkflow
MaxRetries == 2     \* largest max_retries given to _retry_on_failure

(***************************************************************************)
(* Python values                                                           *)
(***************************************************************************)
VNone == [k |-> "none"]                     \* None
VNaN == [k |-> "nan"]                       \* float('nan') / pandas NaN, NaT
VStr(s) == [k |-> "str", s |-> s]           \* a str; VStr("") is the empty string
VMap(m) == [k |-> "map", m |-> m]           \* a dict
VTx(v) == [k |-> "tx", of |-> v]            \* the output of a transform on v

EmptyDict == [x \in {} |-> VNone]

\* dict[key] = value on a function with a dynamic domain
DictSet(d, key, value) ==
    [x \in (DOMAIN d) \cup {key} |-> IF x = key THEN value ELSE d[x]]

\* field_path as a str: the segments joined by '.'
RECURSIVE Join(_)
Join(segs) ==
    IF Len(segs) = 1 THEN segs[1] ELSE segs[1] \o "." \o Join(Tail(segs))

(***************************************************************************)
(* Raw provider results: a row table (DataFrame), a nested map (dict),     *)
(* None, or something else.                                                *)
(***************************************************************************)
RawNone == [tag |-> "none"]
RawScalar == [tag |-> "scalar"]
RawTable(columns, rows) == [tag |-> "table", columns |-> columns, rows |-> rows]
RawDict(m) == [tag |-> "dict", m |-> m]

\* the text a provider returns for one cell: it names endpoint, entity and cell
Cell(api, sym, col) == VStr(api \o "/" \o sym \o "/" \o col)

\* the shapes of answer a provider endpoint may give
SampleKinds == {"none", "scalar", "empty_table", "table_full", "table_partial",
                "table_nan", "table_blank", "dict_full", "dict_partial",
                "dict_blank"}

\* what provider endpoint api returns for entity sym when it answers with `kind`
Sample(kind, api, sym) ==
    CASE kind = "none" -> RawNone
      [] kind = "scalar" -> RawScalar
      [] kind = "empty_table" -> RawTable({"a", "b"}, << >>)
      [] kind = "table_full" ->
            RawTable({"a", "b"},
                     << [a |-> Cell(api, sym, "a"), b |-> Cell(api, sym, "b")],
                        [a |-> Cell(api, sym, "a2"), b |-> Cell(api, sym, "b2")] >>)
      [] kind = "table_partial" ->
            RawTable({"a", "b"},
                     << [a |-> Cell(api, sym, "a"), b |-> VStr("")] >>)
      [] kind = "table_nan" ->
            RawTable({"a", "b"},
                     << [a |-> VNaN, b |-> VNone],
                        [a |-> Cell(api, sym, "a2"), b |-> Cell(api, sym, "b2")] >>)
      [] kind = "table_blank" ->
            RawTable({"a", "b", "d.x"},
                     << [a |-> VStr(""), b |-> VNaN]
                        @@ ("d.x" :> Cell(api, sym, "d.x")) >>)
      [] kind = "dict_full" ->
            RawDict([a |-> Cell(api, sym, "a"), b |-> Cell(api, sym, "b"),
                     d |-> VMap([x |-> Cell(api, sym, "dx")])])
      [] kind = "dict_partial" ->
            RawDict([a |-> VNone, b |-> VNaN, d |-> Cell(api, sym, "d")])
      [] kind = "dict_blank" ->
            RawDict([a |-> VStr(""), b |-> VNone,
                     d |-> VMap([x |-> VStr(""), y |-> VNaN])])

(***************************************************************************)
(* BaseMapper._extract_value                                               *)
(***************************************************************************)
\* pandas.isna on a scalar cell
isna(value) == value.k \in {"none", "nan"}

\* mutant of WalkKeys: only the first segment of the path is followed
WalkKeys_first(current, keys) ==
    IF keys = << >> THEN current
    ELSE IF current.k = "map" /\ Head(keys) \in DOMAIN current.m
         THEN current.m[Head(keys)]
         ELSE VNone

\* the key walk of the dict branch
RECURSIVE WalkKeys(_, _)
WalkKeys(current, keys) ==
    IF keys = << >> THEN current
    ELSE IF current.k = "map" /\ Head(keys) \in DOMAIN current.m
         THEN WalkKeys(current.m[Head(keys)], Tail(keys))
         ELSE VNone

_extract_value(raw_data, field_path) ==
    IF raw_data.tag = "table" THEN
        IF Len(raw_data.rows) = 0 THEN VNone
        ELSE IF Join(field_path) \in raw_data.columns THEN
            LET value == raw_data.rows[1][Join(field_path)]
            IN  IF isna(value) THEN VNone ELSE value
        ELSE VNone
    ELSE IF raw_data.tag = "dict" THEN WalkKeys(VMap(raw_data.m), field_path)
    ELSE VNone

(***************************************************************************)
(* Plans, registry, callers                                                *)
(***************************************************************************)
Calls == {1, 2}                      \* map_all_fields invocations
Fields == {"f1", "f2"}               \* model fields a plan may declare
Apis == {"EP1", "EP2"}               \* endpoint names a plan may reference

\* the entity each call resolves
Symbol(c) == IF c = 1 THEN "600000" ELSE "002156"

\* the 'field' (split on '.') a chain entry of model field f on endpoint api names
SourceField(f, api) ==
    CASE api = "EP1" -> IF f = "f1" THEN << "a" >> ELSE << "b" >>
      [] api = "EP2" -> IF f = "f1" THEN << "d", "x" >> ELSE << "b" >>

\* the 'transform' of that chain entry: none, a total one, one that may raise
TransformOf(f, api) ==
    CASE api = "EP1" -> IF f = "f1" THEN "none" ELSE "parse"
      [] api = "EP2" -> IF f = "f1" THEN "wrap" ELSE "none"

\* one fallback_config of a chain
Entry(f, api) ==
    [api |-> api, field |-> SourceField(f, api), transform |-> TransformOf(f, api)]

\* sequences over S of length at most n
RECURSIVE SeqsUpTo(_, _)
SeqsUpTo(S, n) ==
    IF n = 0 THEN {<< >>}
    ELSE LET shorter == SeqsUpTo(S, n - 1)
         IN  shorter \cup {Append(q, x) : q \in {r \in shorter : Len(r) = n - 1}, x \in S}

\* the fallback chains of field f, one entry per endpoint name
Chains(f) ==
    {[i \in 1..Len(q) |-> Entry(f, q[i])] : q \in SeqsUpTo(Apis, MaxChain)}

\* the plans: the empty plan, and every plan declaring all of Fields
Plans ==
    {EmptyDict} \cup
    {plan \in [Fields -> UNION {Chains(f) : f \in Fields}] :
        \A f \in Fields : plan[f] \in Chains(f)}

\* the endpoint registries: both endpoints usable, or EP2 unregistered, on an
\* unknown data source, or needing a second input parameter
BaseConfigs ==
    [EP1 |-> [data_source |-> "akshare", param_mapping |-> [symbol |-> "symbol"]],
     EP2 |-> [data_source |-> "efinance", param_mapping |-> [stock_code |-> "symbol"]]]

UnregisteredConfigs ==
    [EP1 |-> BaseConfigs["EP1"]]

UnknownSourceConfigs ==
    [EP1 |-> BaseConfigs["EP1"],
     EP2 |-> [data_source |-> "tushare", param_mapping |-> [stock_code |-> "symbol"]]]

TwoParamConfigs ==
    [EP1 |-> BaseConfigs["EP1"],
     EP2 |-> [data_source |-> "efinance",
              param_mapping |-> [stock_code |-> "symbol", market |-> "market"]]]

\* the shipped registry (stock_info_mapping.API_CONFIGS, stocks/config.py):
\* EP1 stands for stock_individual_info_em, EP2 for stock_individual_info
API_CONFIGS ==
    [EP1 |-> [data_source |-> "akshare", param_mapping |-> [symbol |-> "symbol"]],
     EP2 |-> [data_source |-> "efinance", param_mapping |-> [symbol |-> "stock_code"]]]

\* a registry and the keys of the params the caller passes with it
Setups ==
    { [api_configs |-> BaseConfigs, keys |-> {"symbol"}],
      [api_configs |-> API_CONFIGS, keys |-> {"symbol"}],
      [api_configs |-> UnregisteredConfigs, keys |-> {"symbol"}],
      [api_configs |-> UnknownSourceConfigs, keys |-> {"symbol"}],
      [api_configs |-> TwoParamConfigs, keys |-> {"symbol"}],
      [api_configs |-> TwoParamConfigs, keys |-> {"symbol", "market"}] }

\* the params of call c with the given keys
ParamsOf(c, keys) ==
    [key \in keys |-> IF key = "symbol" THEN Symbol(c) ELSE "SH"]

\* the answers of the provider endpoints
RespKinds(api) ==
    CASE api = "EP1" -> {"raise", "table_full", "table_partial", "table_blank"}
      [] api = "EP2" -> {"none", "dict_full", "dict_partial"}

Responses ==
    {r \in [Apis -> {"raise", "none"} \cup SampleKinds] :
        \A a \in Apis : r[a] \in RespKinds(a)}

(***************************************************************************)
(* ClientManager.get_client and BaseMapper._fetch_api                      *)
(***************************************************************************)
data_sources == {"akshare", "efinance"}     \* ClientManager.data_sources

\* get_client(data_source): raises for an unknown source, else the cached client
get_client(cl, data_source) ==
    IF data_source \notin data_sources
    THEN [raised |-> TRUE, clients |-> cl]
    ELSE [raised |-> FALSE, clients |-> cl \cup {data_source}]

\* the entity a provider is asked about: the stock code among the mapped params
EntityOf(mapped_params) ==
    IF "symbol" \in DOMAIN mapped_params THEN mapped_params["symbol"]
    ELSE mapped_params["stock_code"]

\* client.fetch(api_name, mapped_params): raises, or returns raw data or None
client_fetch(r, api_name, mapped_params) ==
    IF r[api_name] = "raise"
    THEN [raised |-> TRUE, raw |-> RawNone]
    ELSE [raised |-> FALSE, raw |-> Sample(r[api_name], api_name, EntityOf(mapped_params))]

\* mutant of _fetch_api: an input parameter that is absent is passed on as
\* unknown and the client is called all the same
_fetch_api_lenient(cfgs, r, cl, api_name, ps) ==
    IF api_name \notin DOMAIN cfgs
    THEN [raw |-> RawNone, called |-> FALSE, raised |-> FALSE,
          mapped_params |-> EmptyDict, clients |-> cl, outcome |-> "unregistered"]
    ELSE LET param_mapping == cfgs[api_name].param_mapping
             mapped_params == [api_param \in DOMAIN param_mapping |->
                                  IF param_mapping[api_param] \in DOMAIN ps
                                  THEN ps[param_mapping[api_param]] ELSE "?"]
             got == get_client(cl, cfgs[api_name].data_source)
             fetched == client_fetch(r, api_name, mapped_params)
         IN  IF got.raised
             THEN [raw |-> RawNone, called |-> FALSE, raised |-> TRUE,
                   mapped_params |-> EmptyDict, clients |-> got.clients,
                   outcome |-> "no_client"]
             ELSE [raw |-> fetched.raw, called |-> TRUE, raised |-> fetched.raised,
                   mapped_params |-> mapped_params, clients |-> got.clients,
                   outcome |-> IF fetched.raised THEN "fetch_raised"
                               ELSE IF fetched.raw = RawNone THEN "no_data"
                               ELSE "ok"]

\* _fetch_api(api_name, params) with client manager state cl:
\*   raw: what it returns; called: whether client.fetch was invoked, and with
\*   which mapped_params; raised: whether the except clause was taken;
\*   clients: the client manager state afterwards; outcome: the line it
\*   returned from (what it logged)
_fetch_api(cfgs, r, cl, api_name, ps) ==
    LET failed(cl2, exc, why) ==
            [raw |-> RawNone, called |-> FALSE, raised |-> exc,
             mapped_params |-> EmptyDict, clients |-> cl2, outcome |-> why]
    IN  IF api_name \notin DOMAIN cfgs THEN failed(cl, FALSE, "unregistered")
        ELSE
        LET api_config == cfgs[api_name]
            param_mapping == api_config.param_mapping
            mapped_params == [api_param \in DOMAIN param_mapping |->
                                 IF param_mapping[api_param] \in DOMAIN ps
                                 THEN ps[param_mapping[api_param]] ELSE "?"]
        IN  IF \E api_param \in DOMAIN param_mapping :
                  param_mapping[api_param] \notin DOMAIN ps
            THEN failed(cl, TRUE, "missing_param")
            ELSE
            LET got == get_client(cl, api_config.data_source)
            IN  IF got.raised THEN failed(got.clients, TRUE, "no_client")
                ELSE
                LET fetched == client_fetch(r, api_name, mapped_params)
                IN  [raw |-> fetched.raw, called |-> TRUE, raised |-> fetched.raised,
                     mapped_params |-> mapped_params, clients |-> got.clients,
                     outcome |-> IF fetched.raised THEN "fetch_raised"
                                 ELSE IF fetched.raw = RawNone THEN "no_data"
                                 ELSE "ok"]

\* whether _fetch_api gets as far as client.fetch; the answer of an endpoint
\* whose client is never reached has nothing to vary
Reaches(cfgs, api_name, ps) ==
    _fetch_api(cfgs, [api \in Apis |-> "none"], {}, api_name, ps).called

(***************************************************************************)
(* BaseMapper.map_all_fields, one invocation c                             *)
(***************************************************************************)
\* transform_func(value): the value it returns, or that it raised
ApplyTransform(transform, value) ==
    CASE transform = "wrap" -> [raised |-> FALSE, value |-> VTx(value)]
      [] transform = "parse" ->
            IF value.k = "str" /\ value.s # ""
            THEN [raised |-> FALSE, value |-> VTx(value)]
            ELSE [raised |-> TRUE, value |-> VNone]

Max(S) == CHOOSE x \in S : \A y \in S : y <= x

SeqToSet(q) == {q[i] : i \in 1..Len(q)}

\* history: _fetch_api(name, params) was called at this depth and returned
\* from the line `outcome` names
FetchEvent(name, depth, outcome) ==
    [ev |-> "fetch", name |-> name, depth |-> depth, outcome |-> outcome]

\* history: the chain entry of field `name` at this depth was consulted
EvalEvent(name, depth, value) ==
    [ev |-> "eval", name |-> name, depth |-> depth,
     outcome |-> IF value = VNone THEN "missing" ELSE "value"]

\* lines 151-156
Start(c) ==
    /\ pc[c] = "start"
    /\ result' = [result EXCEPT ![c] = EmptyDict]
    /\ pending_fields' = [pending_fields EXCEPT ![c] = DOMAIN field_mapping]
    /\ IF DOMAIN field_mapping = {}
       THEN \* max() of an empty sequence raises ValueError
            /\ pc' = [pc EXCEPT ![c] = "raised"]
            /\ UNCHANGED << max_depth, priority_index >>
       ELSE /\ max_depth' = [max_depth EXCEPT ![c] =
                   Max({Len(field_mapping[f]) : f \in DOMAIN field_mapping})]
            /\ priority_index' = [priority_index EXCEPT ![c] = 0]
            /\ pc' = [pc EXCEPT ![c] = "loop"]
    /\ UNCHANGED << field_mapping, api_configs, resp, clients, params, api_cache,
                    apis_to_fetch, to_eval, successfully_fetched, fetch_log, events >>
    /\ UNCHANGED nonMapperVars

\* mutant of ApisAtDepth: the apis of every position of the chains
ApisAtDepth_all(pending, index) ==
    UNION {{field_mapping[f][i].api : i \in 1..Len(field_mapping[f])} :
              f \in {g \in pending : index < Len(field_mapping[g])}}

\* mutant of ApisAtDepth: the apis at this position of every declared chain,
\* whether the field is still pending or not
ApisAtDepth_declared(pending, index) ==
    {field_mapping[f][index + 1].api :
        f \in {g \in DOMAIN field_mapping : pending # {} /\ index < Len(field_mapping[g])}}

\* the apis standing at position priority_index of the chains of fields pending
ApisAtDepth(pending, index) ==
    {field_mapping[f][index + 1].api :
        f \in {g \in pending : index < Len(field_mapping[g])}}

\* lines 159-173: loop test, break, fresh api_cache, apis_to_fetch
LoopHead(c) ==
    /\ pc[c] = "loop"
    /\ IF priority_index[c] >= max_depth[c] \/ pending_fields[c] = {}
       THEN /\ pc' = [pc EXCEPT ![c] = "finish"]
            /\ UNCHANGED << api_cache, apis_to_fetch >>
       ELSE /\ api_cache' = [api_cache EXCEPT ![c] = EmptyDict]
            /\ apis_to_fetch' = [apis_to_fetch EXCEPT ![c] =
                   ApisAtDepth(pending_fields[c], priority_index[c])]
            /\ pc' = [pc EXCEPT ![c] = "fetch"]
    /\ UNCHANGED << field_mapping, api_configs, resp, clients, params, result,
                    pending_fields, max_depth, priority_index, to_eval,
                    successfully_fetched, fetch_log, events >>
    /\ UNCHANGED nonMapperVars

\* mutant of FetchApi: a failed fetch ends the fetch loop of the depth
FetchApi_abort(c) ==
    /\ pc[c] = "fetch"
    /\ \E api_name \in apis_to_fetch[c] :
          LET got == _fetch_api(api_configs, resp, clients, api_name, params[c])
          IN  /\ clients' = got.clients
              /\ api_cache' = [api_cache EXCEPT ![c] =
                     IF got.raw # RawNone
                     THEN DictSet(api_cache[c], api_name, got.raw)
                     ELSE api_cache[c]]
              /\ fetch_log' = [fetch_log EXCEPT ![c] =
                     IF got.called
                     THEN Append(fetch_log[c],
                                 [api |-> api_name, params |-> got.mapped_params,
                                  depth |-> priority_index[c]])
                     ELSE fetch_log[c]]
              /\ events' = [events EXCEPT ![c] =
                     Append(events[c], FetchEvent(api_name, priority_index[c], got.outcome))]
              /\ apis_to_fetch' = [apis_to_fetch EXCEPT ![c] =
                     IF got.raised THEN {} ELSE apis_to_fetch[c] \ {api_name}]
    /\ UNCHANGED << field_mapping, api_configs, resp, params, pc, result,
                    pending_fields, max_depth, priority_index, to_eval,
                    successfully_fetched >>
    /\ UNCHANGED nonMapperVars

\* mutant of FetchApi: the raw result another call holds for the api is reused
FetchApi_shared(c) ==
    /\ pc[c] = "fetch"
    /\ \E api_name \in apis_to_fetch[c] :
          LET holders == {o \in Calls \ {c} : api_name \in DOMAIN api_cache[o]}
              got == _fetch_api(api_configs, resp, clients, api_name, params[c])
          IN  /\ IF holders # {}
                 THEN /\ api_cache' = [api_cache EXCEPT ![c] =
                             DictSet(api_cache[c], api_name,
                                     api_cache[CHOOSE o \in holders : TRUE][api_name])]
                      /\ UNCHANGED << clients, fetch_log >>
                 ELSE /\ clients' = got.clients
                      /\ api_cache' = [api_cache EXCEPT ![c] =
                             IF got.raw # RawNone
                             THEN DictSet(api_cache[c], api_name, got.raw)
                             ELSE api_cache[c]]
                      /\ fetch_log' = [fetch_log EXCEPT ![c] =
                             IF got.called
                             THEN Append(fetch_log[c],
                                         [api |-> api_name, params |-> got.mapped_params,
                                          depth |-> priority_index[c]])
                             ELSE fetch_log[c]]
              /\ events' = [events EXCEPT ![c] =
                     Append(events[c], FetchEvent(api_name, priority_index[c], got.outcome))]
              /\ apis_to_fetch' = [apis_to_fetch EXCEPT ![c] =
                     apis_to_fetch[c] \ {api_name}]
    /\ UNCHANGED << field_mapping, api_configs, resp, params, pc, result,
                    pending_fields, max_depth, priority_index, to_eval,
                    successfully_fetched >>
    /\ UNCHANGED nonMapperVars

\* mutant of FetchApi: the translated parameters are written into the
\* caller's params
FetchApi_inplace(c) ==
    /\ pc[c] = "fetch"
    /\ \E api_name \in apis_to_fetch[c] :
          LET got == _fetch_api(api_configs, resp, clients, api_name, params[c])
          IN  /\ clients' = got.clients
              /\ params' = [params EXCEPT ![c] = got.mapped_params @@ params[c]]
              /\ api_cache' = [api_cache EXCEPT ![c] =
                     IF got.raw # RawNone
                     THEN DictSet(api_cache[c], api_name, got.raw)
                     ELSE api_cache[c]]
              /\ fetch_log' = [fetch_log EXCEPT ![c] =
                     IF got.called
                     THEN Append(fetch_log[c],
                                 [api |-> api_name, params |-> got.mapped_params,
                                  depth |-> priority_index[c]])
                     ELSE fetch_log[c]]
              /\ events' = [events EXCEPT ![c] =
                     Append(events[c], FetchEvent(api_name, priority_index[c], got.outcome))]
              /\ apis_to_fetch' = [apis_to_fetch EXCEPT ![c] =
                     apis_to_fetch[c] \ {api_name}]
    /\ UNCHANGED << field_mapping, api_configs, resp, pc, result,
                    pending_fields, max_depth, priority_index, to_eval,
                    successfully_fetched >>
    /\ UNCHANGED nonMapperVars

\* lines 179-182: one iteration of the fetch loop
FetchApi(c) ==
    /\ pc[c] = "fetch"
    /\ \E api_name \in apis_to_fetch[c] :
          LET got == _fetch_api(api_configs, resp, clients, api_name, params[c])
          IN  /\ clients' = got.clients
              /\ api_cache' = [api_cache EXCEPT ![c] =
                     IF got.raw # RawNone
                     THEN DictSet(api_cache[c], api_name, got.raw)
                     ELSE api_cache[c]]
              /\ fetch_log' = [fetch_log EXCEPT ![c] =
                     IF got.called
                     THEN Append(fetch_log[c],
                                 [api |-> api_name, params |-> got.mapped_params,
                                  depth |-> priority_index[c]])
                     ELSE fetch_log[c]]
              /\ events' = [events EXCEPT ![c] =
                     Append(events[c], FetchEvent(api_name, priority_index[c], got.outcome))]
              /\ apis_to_fetch' = [apis_to_fetch EXCEPT ![c] =
                     apis_to_fetch[c] \ {api_name}]
    /\ UNCHANGED << field_mapping, api_configs, resp, params, pc, result,
                    pending_fields, max_depth, priority_index, to_eval,
                    successfully_fetched >>
    /\ UNCHANGED nonMapperVars

\* mutant of BeginEval: every declared field is evaluated, resolved or not
BeginEval_all(c) ==
    /\ pc[c] = "fetch"
    /\ apis_to_fetch[c] = {}
    /\ successfully_fetched' = [successfully_fetched EXCEPT ![c] = << >>]
    /\ to_eval' = [to_eval EXCEPT ![c] = DOMAIN field_mapping]
    /\ pc' = [pc EXCEPT ![c] = "eval"]
    /\ UNCHANGED << field_mapping, api_configs, resp, clients, params, result,
                    pending_fields, max_depth, priority_index, api_cache,
                    apis_to_fetch, fetch_log, events >>
    /\ UNCHANGED nonMapperVars

\* mutant of BeginEval: the extraction loop starts while apis are unfetched
BeginEval_early(c) ==
    /\ pc[c] = "fetch"
    /\ successfully_fetched' = [successfully_fetched EXCEPT ![c] = << >>]
    /\ to_eval' = [to_eval EXCEPT ![c] = pending_fields[c]]
    /\ pc' = [pc EXCEPT ![c] = "eval"]
    /\ UNCHANGED << field_mapping, api_configs, resp, clients, params, result,
                    pending_fields, max_depth, priority_index, api_cache,
                    apis_to_fetch, fetch_log, events >>
    /\ UNCHANGED nonMapperVars

\* lines 185-186: the fetch loop is over; list(pending_fields) is taken
BeginEval(c) ==
    /\ pc[c] = "fetch"
    /\ apis_to_fetch[c] = {}
    /\ successfully_fetched' = [successfully_fetched EXCEPT ![c] = << >>]
    /\ to_eval' = [to_eval EXCEPT ![c] = pending_fields[c]]
    /\ pc' = [pc EXCEPT ![c] = "eval"]
    /\ UNCHANGED << field_mapping, api_configs, resp, clients, params, result,
                    pending_fields, max_depth, priority_index, api_cache,
                    apis_to_fetch, fetch_log, events >>
    /\ UNCHANGED nonMapperVars

\* lines 192-212: the value of one field at the current depth, VNone if none
FieldValue(cache, fallback_config) ==
    IF fallback_config.api \in DOMAIN cache
    THEN LET value == _extract_value(cache[fallback_config.api], fallback_config.field)
         IN  IF value # VNone /\ fallback_config.transform # "none"
             THEN ApplyTransform(fallback_config.transform, value).value
             ELSE value
    ELSE VNone

\* mutant of EvalField: a transform that raises ends the extraction loop of
\* the depth
EvalField_abort(c) ==
    /\ pc[c] = "eval"
    /\ \E field \in to_eval[c] :
          LET fallback_chain == field_mapping[field]
              fallback_config == fallback_chain[priority_index[c] + 1]
              value == FieldValue(api_cache[c], fallback_config)
              extracted == _extract_value(api_cache[c][fallback_config.api],
                                          fallback_config.field)
              raises == /\ fallback_config.api \in DOMAIN api_cache[c]
                        /\ extracted # VNone
                        /\ fallback_config.transform # "none"
                        /\ ApplyTransform(fallback_config.transform, extracted).raised
          IN  IF priority_index[c] >= Len(fallback_chain)
              THEN /\ to_eval' = [to_eval EXCEPT ![c] = to_eval[c] \ {field}]
                   /\ UNCHANGED << result, successfully_fetched, events >>
              ELSE /\ to_eval' = [to_eval EXCEPT ![c] =
                          IF raises THEN {} ELSE to_eval[c] \ {field}]
                   /\ events' = [events EXCEPT ![c] =
                          Append(events[c],
                                 EvalEvent(field, priority_index[c], value))]
                   /\ IF value = VNone
                      THEN UNCHANGED << result, successfully_fetched >>
                      ELSE /\ result' = [result EXCEPT ![c] =
                                  DictSet(result[c], field, value)]
                           /\ successfully_fetched' =
                                  [successfully_fetched EXCEPT ![c] =
                                      Append(successfully_fetched[c], field)]
    /\ UNCHANGED << field_mapping, api_configs, resp, clients, params, pc,
                    pending_fields, max_depth, priority_index, api_cache,
                    apis_to_fetch, fetch_log >>
    /\ UNCHANGED nonMapperVars

\* lines 186-224: one iteration of the extraction loop
EvalField(c) ==
    /\ pc[c] = "eval"
    /\ \E field \in to_eval[c] :
          LET fallback_chain == field_mapping[field]
              value == FieldValue(api_cache[c], fallback_chain[priority_index[c] + 1])
          IN  /\ to_eval' = [to_eval EXCEPT ![c] = to_eval[c] \ {field}]
              /\ IF priority_index[c] >= Len(fallback_chain)
                 THEN UNCHANGED << result, successfully_fetched, events >>
                 ELSE /\ events' = [events EXCEPT ![c] =
                             Append(events[c],
                                    EvalEvent(field, priority_index[c], value))]
                      /\ IF value = VNone
                         THEN UNCHANGED << result, successfully_fetched >>
                         ELSE /\ result' = [result EXCEPT ![c] =
                                     DictSet(result[c], field, value)]
                              /\ successfully_fetched' =
                                     [successfully_fetched EXCEPT ![c] =
                                         Append(successfully_fetched[c], field)]
    /\ UNCHANGED << field_mapping, api_configs, resp, clients, params, pc,
                    pending_fields, max_depth, priority_index, api_cache,
                    apis_to_fetch, fetch_log >>
    /\ UNCHANGED nonMapperVars

\* mutant of RemoveFetched: only the first fetched field leaves pending_fields
RemoveFetched_first(c) ==
    /\ pc[c] = "eval"
    /\ to_eval[c] = {}
    /\ pending_fields' = [pending_fields EXCEPT ![c] =
           IF successfully_fetched[c] = << >> THEN pending_fields[c]
           ELSE pending_fields[c] \ {Head(successfully_fetched[c])}]
    /\ priority_index' = [priority_index EXCEPT ![c] = priority_index[c] + 1]
    /\ pc' = [pc EXCEPT ![c] = "loop"]
    /\ UNCHANGED << field_mapping, api_configs, resp, clients, params, result,
                    max_depth, api_cache, apis_to_fetch, to_eval,
                    successfully_fetched, fetch_log, events >>
    /\ UNCHANGED nonMapperVars

\* mutant of RemoveFetched: every field evaluated at this depth leaves
\* pending_fields, with or without a value
RemoveFetched_evaluated(c) ==
    /\ pc[c] = "eval"
    /\ to_eval[c] = {}
    /\ pending_fields' = [pending_fields EXCEPT ![c] =
           {f \in pending_fields[c] : priority_index[c] >= Len(field_mapping[f])}]
    /\ priority_index' = [priority_index EXCEPT ![c] = priority_index[c] + 1]
    /\ pc' = [pc EXCEPT ![c] = "loop"]
    /\ UNCHANGED << field_mapping, api_configs, resp, clients, params, result,
                    max_depth, api_cache, apis_to_fetch, to_eval,
                    successfully_fetched, fetch_log, events >>
    /\ UNCHANGED nonMapperVars

\* lines 227-233: the fields fetched at this depth leave pending_fields
RemoveFetched(c) ==
    /\ pc[c] = "eval"
    /\ to_eval[c] = {}
    /\ pending_fields' = [pending_fields EXCEPT ![c] =
           pending_fields[c] \ SeqToSet(successfully_fetched[c])]
    /\ priority_index' = [priority_index EXCEPT ![c] = priority_index[c] + 1]
    /\ pc' = [pc EXCEPT ![c] = "loop"]
    /\ UNCHANGED << field_mapping, api_configs, resp, clients, params, result,
                    max_depth, api_cache, apis_to_fetch, to_eval,
                    successfully_fetched, fetch_log, events >>
    /\ UNCHANGED nonMapperVars

\* lines 236-241: return result
Finish(c) ==
    /\ pc[c] = "finish"
    /\ pc' = [pc EXCEPT ![c] = "done"]
    /\ UNCHANGED << field_mapping, api_configs, resp, clients, params, result,
                    pending_fields, max_depth, priority_index, api_cache,
                    apis_to_fetch, to_eval, successfully_fetched, fetch_log, events >>
    /\ UNCHANGED nonMapperVars

(***************************************************************************)
(* _extract_value as a step of its own, on every raw shape and path        *)
(***************************************************************************)
ExtractRaws == {Sample(kind, "EP1", Symbol(1)) : kind \in SampleKinds}

ExtractPaths == { << "a" >>, << "b" >>, << "c" >>, << "d" >>, << "d", "x" >>,
                  << "d", "y" >>, << "d", "z" >>, << "a", "x" >> }

Unset == [k |-> "unset"]

Extract ==
    /\ ex_out = Unset
    /\ ex_out' = _extract_value(ex_raw, ex_path)
    /\ UNCHANGED << ex_raw, ex_path >>
    /\ UNCHANGED nonExtractVars

(***************************************************************************)
(* map_stock_info, the global chain of provider functions                  *)
(* (stocks/info_mapping.py, stocks/info_config.py).  The Chinese item      *)
(* names of the providers are written in ASCII.                            *)
(***************************************************************************)
ALL_FIELDS ==
    << "code", "name", "full_name", "industry_code", "industry",
       "establish_date", "list_date", "main_operation_business",
       "operating_scope" >>

API_PRIORITY_CONFIG ==
    << [priority |-> 1, name |-> "em", fetch_func |-> "_fetch_from_em"],
       [priority |-> 2, name |-> "xq", fetch_func |-> "_fetch_from_xq"],
       [priority |-> 3, name |-> "efinance", fetch_func |-> "_fetch_from_efinance"] >>

\* the field_mapping dicts of the three provider functions
em_field_mapping ==
    [code |-> "gupiao_daima", name |-> "gupiao_jiancheng",
     full_name |-> "gupiao_mingcheng", market |-> "shichang_leixing",
     industry_code |-> "hangye_daima", industry |-> "hangye",
     establish_date |-> "chengli_riqi", list_date |-> "shangshi_riqi",
     main_operation_business |-> "zhuying_yewu",
     operating_scope |-> "jingying_fanwei", status |-> "shangshi_zhuangtai"]

xq_field_mapping ==
    [name |-> "org_short_name_cn", full_name |-> "org_name_cn",
     establish_date |-> "established_date", list_date |-> "listed_date",
     main_operation_business |-> "main_operation_business",
     operating_scope |-> "operating_scope"]

efinance_field_mapping ==
    [code |-> "gupiao_daima", name |-> "gupiao_jiancheng",
     full_name |-> "gupiao_mingcheng", market |-> "shichang",
     industry |-> "hangye", list_date |-> "shangshi_riqi",
     status |-> "shangshi_zhuangtai"]

\* an item/value DataFrame: the value of the first row of each item
RawItems(items) == [tag |-> "items", items |-> items]
\* a pandas Series (neither DataFrame nor dict)
RawSeries == [tag |-> "series"]

InfoCell(provider, item) == VStr(provider \o ":" \o item)

Range(fn) == {fn[x] : x \in DOMAIN fn}

\* what the client of a provider returns when it answers with `kind`
InfoSample(kind, provider) ==
    CASE kind = "none" -> RawNone
      [] kind = "empty" -> RawTable({"item", "value"}, << >>)
      [] kind = "series" -> RawSeries
      [] kind = "em_full" ->
            RawItems([item \in Range(em_field_mapping) |-> InfoCell(provider, item)])
      [] kind = "em_partial" ->
            RawItems([item \in Range(em_field_mapping) \ {"hangye_daima"} |->
                IF item = "chengli_riqi" THEN VNaN
                ELSE IF item = "jingying_fanwei" THEN VStr("")
                ELSE InfoCell(provider, item)])
      [] kind = "xq_full" ->
            RawItems([item \in Range(xq_field_mapping) \cup {"affiliate_industry"} |->
                IF item = "affiliate_industry"
                THEN VMap([ind_name |-> InfoCell(provider, "ind_name"),
                           ind_code |-> InfoCell(provider, "ind_code")])
                ELSE InfoCell(provider, item)])
      [] kind = "xq_partial" ->
            RawItems([item \in {"org_short_name_cn", "established_date",
                                "operating_scope", "affiliate_industry"} |->
                IF item = "affiliate_industry"
                THEN VMap([ind_name |-> VStr(""),
                           ind_code |-> InfoCell(provider, "ind_code")])
                ELSE InfoCell(provider, item)])
      [] kind = "ef_table" ->
            RawTable(Range(efinance_field_mapping),
                     << [item \in Range(efinance_field_mapping) |->
                            InfoCell(provider, item)] >>)
      [] kind = "ef_dict" ->
            RawDict([gupiao_daima |-> InfoCell(provider, "gupiao_daima"),
                     gupiao_jiancheng |-> VStr(""),
                     hangye |-> InfoCell(provider, "hangye")])

\* the answers of the three providers: raise, or a sample
InfoKinds(provider) ==
    CASE provider = "em" -> {"raise", "none", "empty", "em_full", "em_partial"}
      [] provider = "xq" -> {"raise", "empty", "xq_full", "xq_partial"}
      [] provider = "efinance" -> {"none", "series", "ef_table", "ef_dict"}

InfoProviders == {API_PRIORITY_CONFIG[i].name : i \in 1..Len(API_PRIORITY_CONFIG)}

InfoResponses ==
    {r \in [InfoProviders -> UNION {InfoKinds(pr) : pr \in InfoProviders}] :
        \A pr \in InfoProviders : r[pr] \in InfoKinds(pr)}

\* stock codes, as their digits
InfoSymbols == { << 6, 0, 0, 0, 0, 0 >>, << 0, 0, 2, 1, 5, 6 >>,
                 << 8, 3, 0, 7, 7, 9 >>, << 9, 0, 0, 9, 0, 1 >> }

\* utils/stock.py add_market_prefix: the prefix put before the code
add_market_prefix(code) ==
    IF code[1] \in {0, 3} THEN [prefix |-> "SZ", code |-> code]
    ELSE IF code[1] = 6 THEN [prefix |-> "SH", code |-> code]
    ELSE IF code[1] = 8 \/ code[1] = 4 THEN [prefix |-> "BJ", code |-> code]
    ELSE [prefix |-> "", code |-> code]

\* info_config._get_value(data, field)
_get_value(data, field) ==
    IF data.tag = "items" THEN
        IF field \in DOMAIN data.items
        THEN IF isna(data.items[field]) THEN VNone ELSE data.items[field]
        ELSE VNone
    ELSE IF data.tag = "table" THEN
        IF field \in data.columns /\ Len(data.rows) > 0
        THEN IF isna(data.rows[1][field]) THEN VNone ELSE data.rows[1][field]
        ELSE VNone
    ELSE IF data.tag = "dict" THEN
        IF field \in DOMAIN data.m THEN data.m[field] ELSE VNone
    ELSE VNone

\* the truth value of a Python value
Truthy(value) ==
    CASE value.k = "none" -> FALSE
      [] value.k = "str" -> value.s # ""
      [] value.k = "map" -> DOMAIN value.m # {}
      [] OTHER -> TRUE

\* steps 2-3 of a provider function: the needed fields its field_mapping names
\* whose value is neither None nor ""
ExtractNeeded(data, mapping, needed_fields) ==
    LET found == {f \in needed_fields \cap DOMAIN mapping :
                     /\ _get_value(data, mapping[f]) # VNone
                     /\ _get_value(data, mapping[f]) # VStr("")}
    IN  [f \in found |-> _get_value(data, mapping[f])]

\* data is None or an empty DataFrame
NoData(data) ==
    \/ data = RawNone
    \/ data.tag \in {"table", "items"} /\
       (IF data.tag = "table" THEN Len(data.rows) = 0 ELSE DOMAIN data.items = {})

_fetch_from_em(kind, needed_fields) ==
    IF kind = "raise" THEN EmptyDict
    ELSE LET data == InfoSample(kind, "em")
         IN  IF NoData(data) THEN EmptyDict
             ELSE ExtractNeeded(data, em_field_mapping, needed_fields)

_fetch_from_xq(kind, needed_fields) ==
    IF kind = "raise" THEN EmptyDict
    ELSE LET data == InfoSample(kind, "xq")
             industry_data == _get_value(data, "affiliate_industry")
             plain == ExtractNeeded(data, xq_field_mapping, needed_fields)
             has_industry ==
                 Truthy(industry_data) /\ industry_data.k = "map"
             ind_name == IF has_industry /\ "ind_name" \in DOMAIN industry_data.m
                         THEN industry_data.m["ind_name"] ELSE VNone
             ind_code == IF has_industry /\ "ind_code" \in DOMAIN industry_data.m
                         THEN industry_data.m["ind_code"] ELSE VNone
             with_name == IF "industry" \in needed_fields /\ Truthy(ind_name)
                          THEN DictSet(plain, "industry", ind_name) ELSE plain
         IN  IF NoData(data) THEN EmptyDict
             ELSE IF "industry_code" \in needed_fields /\ Truthy(ind_code)
                  THEN DictSet(with_name, "industry_code", ind_code)
                  ELSE with_name

_fetch_from_efinance(kind, needed_fields) ==
    IF kind = "raise" THEN EmptyDict
    ELSE LET data == InfoSample(kind, "efinance")
         IN  IF NoData(data) THEN EmptyDict
             ELSE ExtractNeeded(data, efinance_field_mapping, needed_fields)

\* api_config['fetch_func'](symbol, client_manager, missing_fields)
fetch_func(api_config, kinds, needed_fields) ==
    CASE api_config.fetch_func = "_fetch_from_em" ->
            _fetch_from_em(kinds[api_config.name], needed_fields)
      [] api_config.fetch_func = "_fetch_from_xq" ->
            _fetch_from_xq(kinds[api_config.name], needed_fields)
      [] api_config.fetch_func = "_fetch_from_efinance" ->
            _fetch_from_efinance(kinds[api_config.name], needed_fields)

\* info_mapping._add_computed_fields(result, symbol)
_add_computed_fields(res, symbol) ==
    LET r1 == IF "market" \notin DOMAIN res
              THEN DictSet(res, "market", [k |-> "code", v |-> add_market_prefix(symbol)])
              ELSE res
        r2 == IF "status" \notin DOMAIN r1
              THEN DictSet(r1, "status", VStr("listed")) ELSE r1
    IN  IF "tracking" \notin DOMAIN r2
        THEN DictSet(r2, "tracking", [k |-> "bool", b |-> FALSE]) ELSE r2

\* mutant of _merge_fields: dict.update, new values replace old ones
_merge_fields_update(res, new_fields, missing) ==
    [result |-> [f \in (DOMAIN res) \cup (DOMAIN new_fields) |->
                    IF f \in DOMAIN new_fields THEN new_fields[f] ELSE res[f]],
     missing_fields |-> missing \ DOMAIN new_fields]

\* info_mapping._merge_fields: the result and missing_fields it leaves
_merge_fields(res, new_fields, missing) ==
    LET added == (DOMAIN new_fields) \ (DOMAIN res)
    IN  [result |-> [f \in (DOMAIN res) \cup added |->
                        IF f \in DOMAIN res THEN res[f] ELSE new_fields[f]],
         missing_fields |-> missing \ added]

\* mutant of AllComplete: the loop never breaks
AllComplete_never(missing) == FALSE

\* line 40: not missing_fields
AllComplete(missing) == missing = {}

\* lines 32-35
InfoStart ==
    /\ info_pc = "start"
    /\ info_result' = _add_computed_fields(EmptyDict, info_symbol)
    /\ missing_fields' = SeqToSet(ALL_FIELDS)
    /\ info_index' = 1
    /\ info_pc' = "loop"
    /\ UNCHANGED << info_symbol, info_data, info_calls >>
    /\ UNCHANGED nonInfoVars

\* lines 38-66: one iteration of the loop over API_PRIORITY_CONFIG
InfoTry ==
    /\ info_pc = "loop"
    /\ info_index <= Len(API_PRIORITY_CONFIG)
    /\ ~AllComplete(missing_fields)
    /\ LET api_config == API_PRIORITY_CONFIG[info_index]
           extracted == fetch_func(api_config, info_data, missing_fields)
           merged == _merge_fields(info_result, extracted, missing_fields)
       IN  /\ info_calls' = Append(info_calls,
                                   [name |-> api_config.name, needed |-> missing_fields])
           /\ IF extracted # EmptyDict
              THEN /\ info_result' = merged.result
                   /\ missing_fields' = merged.missing_fields
              ELSE UNCHANGED << info_result, missing_fields >>
    /\ info_index' = info_index + 1
    /\ UNCHANGED << info_symbol, info_data, info_pc >>
    /\ UNCHANGED nonInfoVars

\* lines 40-42 (break) or the list is exhausted, then lines 68-74
InfoReturn ==
    /\ info_pc = "loop"
    /\ info_index > Len(API_PRIORITY_CONFIG) \/ AllComplete(missing_fields)
    /\ info_pc' = "done"
    /\ UNCHANGED << info_symbol, info_data, info_index, info_result,
                    missing_fields, info_calls >>
    /\ UNCHANGED nonInfoVars

(***************************************************************************)
(* utils/timer.py convert_to_date.  A Python int n is written as the pair  *)
(* (n div 1000, n mod 1000) so that millisecond epochs stay exact; a str   *)
(* is the sequence of its characters.                                      *)
(***************************************************************************)
DInt(secs, ms) == [k |-> "int", secs |-> secs, ms |-> ms]
DStr(chars) == [k |-> "str", chars |-> chars]
DDate(y, m, d) == [k |-> "date", y |-> y, m |-> m, d |-> d]
DNone == [k |-> "none"]

DigitOf ==
    ("0" :> 0) @@ ("1" :> 1) @@ ("2" :> 2) @@ ("3" :> 3) @@ ("4" :> 4) @@
    ("5" :> 5) @@ ("6" :> 6) @@ ("7" :> 7) @@ ("8" :> 8) @@ ("9" :> 9)

\* str.isdigit on a non-empty run of characters
IsDigits(chars) ==
    Len(chars) > 0 /\ \A i \in 1..Len(chars) : chars[i] \in DOMAIN DigitOf

\* int(chars)
RECURSIVE NumberOf(_)
NumberOf(chars) ==
    IF chars = << >> THEN 0
    ELSE 10 * NumberOf(SubSeq(chars, 1, Len(chars) - 1)) + DigitOf[chars[Len(chars)]]

IsLeap(y) == (y % 4 = 0 /\ y % 100 # 0) \/ y % 400 = 0

DaysInMonth(y, m) ==
    IF m = 2 THEN (IF IsLeap(y) THEN 29 ELSE 28)
    ELSE IF m \in {4, 6, 9, 11} THEN 30 ELSE 31

\* date(y, m, d): the date, or None where the constructor raises ValueError
MakeDate(y, m, d) ==
    IF y \in 1..9999 /\ m \in 1..12 /\ d >= 1 /\ d <= DaysInMonth(y, m)
    THEN DDate(y, m, d) ELSE DNone

\* the proleptic Gregorian date `days` days after 1970-01-01
CivilFromDays(days) ==
    LET z == days + 719468
        era == z \div 146097
        doe == z - era * 146097
        yoe == (doe - doe \div 1460 + doe \div 36524 - doe \div 146096) \div 365
        doy == doe - (365 * yoe + yoe \div 4 - yoe \div 100)
        mp == (5 * doy + 2) \div 153
        d == doy - (153 * mp + 2) \div 5 + 1
        m == IF mp < 10 THEN mp + 3 ELSE mp - 9
        y == yoe + era * 400 + (IF m <= 2 THEN 1 ELSE 0)
    IN  MakeDate(y, m, d)

\* datetime.fromtimestamp(t).date() on a host `offset` seconds east of UTC,
\* for t = whole + frac seconds with 0 <= frac < 1: local time, no DST
FromTimestampDate(whole, offset) == CivilFromDays((whole + offset) \div 86400)

\* the same for t = 1000 * secs + ms whole seconds (a seconds timestamp that
\* was written as the pair of an int)
FromBigTimestampDate(secs, ms, offset) ==
    LET q == secs \div 86400
        r == secs % 86400
    IN  CivilFromDays(1000 * q + (1000 * r + ms + offset) \div 86400)

\* the positions of '-' in a str
DashesOf(chars) == {i \in 1..Len(chars) : chars[i] = "-"}

\* datetime.strptime(value, "%Y%m%d").date() for 8 digits
ParseCompact(chars) ==
    MakeDate(NumberOf(SubSeq(chars, 1, 4)), NumberOf(SubSeq(chars, 5, 6)),
             NumberOf(SubSeq(chars, 7, 8)))

\* datetime.strptime(value, "%Y-%m-%d").date(): four digits, then one or
\* two digits twice, separated by '-'; anything else raises ValueError
ParseDashed(chars) ==
    LET dashes == DashesOf(chars)
        d1 == CHOOSE i \in dashes : \A j \in dashes : i <= j
        d2 == CHOOSE i \in dashes : \A j \in dashes : j <= i
        ys == SubSeq(chars, 1, d1 - 1)
        ms == SubSeq(chars, d1 + 1, d2 - 1)
        ds == SubSeq(chars, d2 + 1, Len(chars))
    IN  IF /\ Cardinality(dashes) = 2
           /\ Len(ys) = 4 /\ IsDigits(ys)
           /\ Len(ms) \in 1..2 /\ IsDigits(ms)
           /\ Len(ds) \in 1..2 /\ IsDigits(ds)
        THEN MakeDate(NumberOf(ys), NumberOf(ms), NumberOf(ds))
        ELSE DNone

\* value > 10000000000 for the int value = 1000 * secs + ms
IsMilliseconds(value) ==
    value.secs > 10000000 \/ (value.secs = 10000000 /\ value.ms > 0)

\* convert_to_date(value) on a host `offset` seconds east of UTC
convert_to_date(value, offset) ==
    CASE value.k = "none" -> DNone
      [] value.k = "date" -> value
      [] value.k = "int" ->
            IF IsMilliseconds(value) THEN FromTimestampDate(value.secs, offset)
            ELSE FromBigTimestampDate(value.secs, value.ms, offset)
      [] value.k = "str" ->
            IF value.chars = << >> THEN DNone
            ELSE IF Len(value.chars) = 8 /\ IsDigits(value.chars)
                 THEN ParseCompact(value.chars)
            ELSE IF DashesOf(value.chars) # {} THEN ParseDashed(value.chars)
            ELSE DNone

\* the values convert_to_date is applied to
DateInputs ==
    { DInt(760291200, 0), DInt(760320000, 0), DInt(760319999, 999),
      DInt(1186588800, 0), DInt(1700000000, 0), DInt(951782400, 0),
      DInt(10000000, 1), DInt(10000000, 0), DInt(760291, 200), DInt(0, 0),
      DInt(86, 399), DNone, DDate(1994, 2, 4), DStr(<< >>),
      DStr(<< "2", "0", "0", "7", "0", "8", "1", "6" >>),
      DStr(<< "2", "0", "0", "7", "1", "3", "0", "1" >>),
      DStr(<< "2", "0", "0", "7", "0", "2", "2", "9" >>),
      DStr(<< "2", "0", "0", "7", "-", "0", "8", "-", "1", "6" >>),
      DStr(<< "2", "0", "0", "8", "-", "2", "-", "2", "9" >>),
      DStr(<< "2", "0", "0", "7", "-", "0", "8" >>),
      DStr(<< "0", "7", "-", "0", "8", "-", "1", "6" >>),
      DStr(<< "2", "0", "0", "7", "/", "0", "8", "/", "1", "6" >>) }

\* host time zones, in seconds east of UTC
TzOffsets == {0 - 28800, 0 - 18000, 0, 3600, 19800, 28800, 32400}

DateUnset == [k |-> "unset"]

ConvertToDate ==
    /\ date_out = DateUnset
    /\ date_out' = convert_to_date(date_value, tz_offset)
    /\ UNCHANGED << date_value, tz_offset >>
    /\ UNCHANGED nonDateVars

(***************************************************************************)
(* WorkflowManager (src/data/workflows/workflow_manager.py)                *)
(***************************************************************************)
\* the collector classes initialize() constructs, in that order
CollectorClasses == << "tushare", "akshare", "yfinance" >>

\* the outcome of an operation of the manager
Ended(op, outcome) == [op |-> op, outcome |-> outcome]

\* self.collectors[name] = collector for the constructors that succeeded:
\* a key already present keeps its place, a new key goes to the end
RECURSIVE Registered(_, _, _)
Registered(collectors, classes, ok) ==
    IF classes = << >> THEN collectors
    ELSE LET name == Head(classes)
             next == IF name \in ok /\ name \notin SeqToSet(collectors)
                     THEN Append(collectors, name) ELSE collectors
         IN  Registered(next, Tail(classes), ok)

\* initialize(), lines 41-44 and _initialize_collectors: each constructor
\* succeeds or raises; no collector at all raises, and initialize returns False
InitializeCollectors ==
    /\ wf_pc = "idle"
    /\ \E ok \in SUBSET SeqToSet(CollectorClasses) :
          LET collectors == Registered(wf_collectors, CollectorClasses, ok)
          IN  /\ wf_collectors' = collectors
              /\ IF collectors = << >>
                 THEN /\ wf_pc' = "idle"
                      /\ wf_last' = Ended("initialize", "false")
                 ELSE /\ wf_pc' = "init_storage"
                      /\ wf_last' = Ended("initialize", "running")
    /\ wf_touched' = {}
    /\ UNCHANGED << wf_initialized, wf_storage, wf_workflow, wf_todo,
                    wf_cleanup_kind >>
    /\ UNCHANGED nonWfVars

\* _initialize_storage: StockInfoStorage() succeeds or raises
InitializeStorage ==
    /\ wf_pc = "init_storage"
    /\ \E ok \in BOOLEAN :
          IF ok
          THEN /\ wf_storage' = TRUE
               /\ wf_pc' = "init_workflows"
               /\ UNCHANGED wf_last
          ELSE /\ wf_pc' = "idle"
               /\ wf_last' = Ended("initialize", "false")
               /\ UNCHANGED wf_storage
    /\ UNCHANGED << wf_initialized, wf_collectors, wf_workflow, wf_todo,
                    wf_touched, wf_cleanup_kind >>
    /\ UNCHANGED nonWfVars

\* _initialize_workflows, then lines 52-54
InitializeWorkflows ==
    /\ wf_pc = "init_workflows"
    /\ IF wf_collectors = << >> \/ ~wf_storage
       THEN /\ wf_last' = Ended("initialize", "false")
            /\ UNCHANGED << wf_workflow, wf_initialized >>
       ELSE /\ wf_workflow' = TRUE
            /\ wf_initialized' = TRUE
            /\ wf_last' = Ended("initialize", "true")
    /\ wf_pc' = "idle"
    /\ UNCHANGED << wf_collectors, wf_storage, wf_todo, wf_touched,
                    wf_cleanup_kind >>
    /\ UNCHANGED nonWfVars

\* what the run_* operations and get_system_status leave alone
RunFrame ==
    /\ UNCHANGED << wf_initialized, wf_collectors, wf_storage, wf_workflow,
                    wf_pc, wf_todo, wf_cleanup_kind >>
    /\ UNCHANGED nonWfVars

\* lines 138-153: the body of run_stock_info_collection, entered by operation
\* op after it called `touched`
StockInfoCollectionBody(op, symbols_given, ok, touched) ==
    /\ wf_touched' = touched \cup
           {IF symbols_given THEN "stock_workflow.collect_and_store_stock_info"
            ELSE "stock_workflow.update_stock_list"}
    /\ wf_last' = Ended(op, IF ok THEN "returned" ELSE "raised")

\* run_stock_info_collection(symbols, ...): symbols given or None, the
\* workflow returns or raises
RunStockInfoCollection ==
    /\ wf_pc = "idle"
    /\ IF ~wf_initialized
       THEN /\ wf_last' = Ended("run_stock_info_collection", "not_initialized")
            /\ wf_touched' = {}
       ELSE \E symbols_given, ok \in BOOLEAN :
                StockInfoCollectionBody("run_stock_info_collection",
                                        symbols_given, ok, {})
    /\ RunFrame

\* run_historical_data_collection
RunHistoricalDataCollection ==
    /\ wf_pc = "idle"
    /\ IF ~wf_initialized
       THEN /\ wf_last' = Ended("run_historical_data_collection", "not_initialized")
            /\ wf_touched' = {}
       ELSE \E ok \in BOOLEAN :
                /\ wf_touched' = {"stock_workflow.collect_and_store_historical_data"}
                /\ wf_last' = Ended("run_historical_data_collection",
                                    IF ok THEN "returned" ELSE "raised")
    /\ RunFrame

\* lines 203-225: the body of run_daily_update; storage.list_all_symbols()
\* raises, is empty (then run_stock_info_collection() is run) or lists symbols
DailyUpdateBody ==
    \E listing \in {"raises", "empty", "some"}, ok \in BOOLEAN :
        IF listing = "raises"
        THEN /\ wf_touched' = {"storage.list_all_symbols"}
             /\ wf_last' = Ended("run_daily_update", "raised")
        ELSE StockInfoCollectionBody("run_daily_update", listing = "some", ok,
                                     {"storage.list_all_symbols"})

\* mutant of RunDailyUpdate: the test of _initialized is left out
RunDailyUpdate_unguarded ==
    /\ wf_pc = "idle"
    /\ DailyUpdateBody
    /\ RunFrame

\* run_daily_update
RunDailyUpdate ==
    /\ wf_pc = "idle"
    /\ IF ~wf_initialized
       THEN /\ wf_last' = Ended("run_daily_update", "not_initialized")
            /\ wf_touched' = {}
       ELSE DailyUpdateBody
    /\ RunFrame

\* run_full_update
RunFullUpdate ==
    /\ wf_pc = "idle"
    /\ IF ~wf_initialized
       THEN /\ wf_last' = Ended("run_full_update", "not_initialized")
            /\ wf_touched' = {}
       ELSE \E ok \in BOOLEAN :
                /\ wf_touched' = {"stock_workflow.update_stock_list"}
                /\ wf_last' = Ended("run_full_update",
                                    IF ok THEN "returned" ELSE "raised")
    /\ RunFrame

\* get_system_status: not guarded by _initialized
GetSystemStatus ==
    /\ wf_pc = "idle"
    /\ wf_touched' = IF wf_storage THEN {"storage.is_connected"} ELSE {}
    /\ wf_last' = Ended("get_system_status", "returned")
    /\ RunFrame

\* cleanup(), line 273 and the start of the loop over self.collectors
CleanupStart ==
    /\ wf_pc = "idle"
    /\ wf_pc' = "cleanup"
    /\ wf_todo' = wf_collectors
    /\ wf_touched' = {}
    /\ wf_last' = Ended("cleanup", "running")
    /\ UNCHANGED << wf_initialized, wf_collectors, wf_storage, wf_workflow,
                    wf_cleanup_kind >>
    /\ UNCHANGED nonWfVars

\* lines 277-280: one collector; an exception ends cleanup at lines 290-291
CleanupCollector ==
    /\ wf_pc = "cleanup"
    /\ wf_todo # << >>
    /\ LET name == Head(wf_todo)
           kind == wf_cleanup_kind[name]
       IN  /\ wf_touched' = IF kind = "absent" THEN wf_touched
                            ELSE wf_touched \cup {"cleanup " \o name}
           /\ IF kind = "raises"
              THEN /\ wf_pc' = "idle"
                   /\ wf_todo' = << >>
                   /\ wf_last' = Ended("cleanup", "returned")
              ELSE /\ wf_todo' = Tail(wf_todo)
                   /\ UNCHANGED << wf_pc, wf_last >>
    /\ UNCHANGED << wf_initialized, wf_collectors, wf_storage, wf_workflow,
                    wf_cleanup_kind >>
    /\ UNCHANGED nonWfVars

\* lines 283-288: the storage, then _initialized = False; an exception ends
\* cleanup at lines 290-291 before the assignment
CleanupStorage ==
    /\ wf_pc = "cleanup"
    /\ wf_todo = << >>
    /\ LET kind == IF wf_storage THEN wf_cleanup_kind["storage"] ELSE "absent"
       IN  /\ wf_touched' = IF kind = "absent" THEN wf_touched
                            ELSE wf_touched \cup {"cleanup storage"}
           /\ wf_initialized' = IF kind = "raises" THEN wf_initialized ELSE FALSE
    /\ wf_pc' = "idle"
    /\ wf_last' = Ended("cleanup", "returned")
    /\ UNCHANGED << wf_collectors, wf_storage, wf_workflow, wf_todo,
                    wf_cleanup_kind >>
    /\ UNCHANGED nonWfVars

\* what cleanup does on an object: the attribute is absent, or the call
\* returns, or it raises
CleanupKinds == {"absent", "ok", "raises"}

(***************************************************************************)
(* StocksService.add_stock (services/stocks_service.py), which calls       *)
(* map_stock_info and hands its result to the repository                   *)
(***************************************************************************)
SvcNoUpsert == [k |-> "none"]

\* lines 17-31, once map_stock_info (line 15) returned: `not stock_data`
\* raises ValueError; upsert_by_code(code, **kwargs) called without the
\* keyword code raises TypeError before its body runs; otherwise the upsert
\* runs and gives a row or None
AddStock ==
    /\ info_pc = "done"
    /\ svc_outcome = "running"
    /\ IF info_result = EmptyDict
       THEN /\ svc_outcome' = "ValueError"
            /\ UNCHANGED svc_upsert
       ELSE IF "code" \notin DOMAIN info_result
       THEN /\ svc_outcome' = "TypeError"
            /\ UNCHANGED svc_upsert
       ELSE \E stock \in BOOLEAN :
                /\ svc_upsert' = [k |-> "kwargs", kwargs |-> info_result]
                /\ svc_outcome' = IF stock THEN "returned dict" ELSE "returned None"
    /\ UNCHANGED nonSvcVars

(***************************************************************************)
(* StockWorkflow (src/data/workflows/stock_workflow.py)                    *)
(***************************************************************************)
\* the i-th symbol of a symbols list
SymbolName(i) ==
    CASE i = 1 -> "000001.SZ"
      [] i = 2 -> "000002.SZ"
      [] i = 3 -> "600000.SH"
      [] OTHER -> "600519.SH"

\* the symbols lists a caller passes
SymbolLists == {[i \in 1..n |-> SymbolName(i)] : n \in 0..MaxSymbols}

\* the batch sizes a caller passes (an int, not validated)
BatchSizes == (0 - 1)..MaxSymbols

\* the collectors dicts a workflow is built with
CollectorDicts ==
    { << >>, << "tushare" >>, << "tushare", "akshare" >>,
      << "akshare", "tushare", "yfinance" >> }

\* preferred_collector: None or a name, registered or not
PreferredCollectors == {"None", "akshare", "yfinance"}

\* what collector.get_stock_info(symbol) does: returns a StockInfo, returns
\* None, or raises one of the exceptions lines 145-165 tell apart
CollectorKinds ==
    {"info", "none", "RateLimitError", "SymbolNotFoundError",
     "DataCollectorError", "Exception"}

\* str(e) of the exception a collector raises
MessageOf(kind, collector) == kind \o " in " \o collector

\* the StockInfo a collector returns for a symbol
StockInfoOf(symbol, collector) ==
    [k |-> "info", symbol |-> symbol, source |-> collector]

SwNone == [k |-> "none"]
SwUnset == [k |-> "unset"]

\* the text of the error entry of line 90
NoDataText == "no data found"

\* an entry of results['errors']: f"{symbol}: {text}"
ErrorEntry(symbol, text) == [symbol |-> symbol, text |-> text]

\* i is produced by range(0, n, step), i being a multiple of step
InRange(i, n, step) == IF step > 0 THEN i < n ELSE i > n

\* symbols[i : i + batch_size] for 0 <= i < len(symbols), batch_size > 0
Slice(symbols, i, batch_size) ==
    SubSeq(symbols, i + 1,
           IF i + batch_size < Len(symbols) THEN i + batch_size ELSE Len(symbols))

\* mutant of collectors_to_try: registration order, whatever is preferred
collectors_to_try_registered(collectors, preferred_collector) == collectors

\* lines 122-131
collectors_to_try(collectors, preferred_collector) ==
    LET first == IF preferred_collector # "None" /\
                    preferred_collector \in SeqToSet(collectors)
                 THEN << preferred_collector >> ELSE << >>
    IN  first \o SelectSeq(collectors, LAMBDA name : name \notin SeqToSet(first))

\* the locals of collect_and_store_stock_info and of what it calls
SwLocalsUnset ==
    /\ sw_i = 0
    /\ sw_results = [total |-> 0, success |-> 0, failed |-> 0, errors |-> << >>]
    /\ sw_batch = << >>
    /\ sw_batch_results = [success |-> 0, failed |-> 0, errors |-> << >>]
    /\ sw_stock_infos = << >>
    /\ sw_symbol = ""
    /\ sw_to_try = << >>
    /\ sw_tried = << >>
    /\ sw_info = SwUnset
    /\ sw_store_calls = << >>
    /\ sw_fallback = << >>

swConfig == << sw_collectors, sw_storage_has, sw_symbols, sw_preferred, sw_batch_size >>

\* lines 50-55: results; range(0, len(symbols), 0) raises ValueError
CollectAndStoreStart ==
    /\ sw_pc = "start"
    /\ sw_results' = [total |-> Len(sw_symbols), success |-> 0, failed |-> 0,
                      errors |-> << >>]
    /\ sw_i' = 0
    /\ sw_pc' = IF sw_batch_size = 0 THEN "raised" ELSE "batch"
    /\ UNCHANGED << swConfig, sw_batch, sw_batch_results, sw_stock_infos,
                    sw_symbol, sw_to_try, sw_tried, sw_info, sw_store_calls,
                    sw_fallback >>
    /\ UNCHANGED nonSwVars

\* lines 55-59 and 78-80: the next batch, or lines 70-71 when range is over
ProcessBatchBegin ==
    /\ sw_pc = "batch"
    /\ IF InRange(sw_i, Len(sw_symbols), sw_batch_size)
       THEN /\ sw_batch' = Slice(sw_symbols, sw_i, sw_batch_size)
            /\ sw_batch_results' = [success |-> 0, failed |-> 0, errors |-> << >>]
            /\ sw_stock_infos' = << >>
            /\ sw_store_calls' = << >>
            /\ sw_pc' = "symbol"
       ELSE /\ sw_pc' = "done"
            /\ UNCHANGED << sw_batch, sw_batch_results, sw_stock_infos,
                            sw_store_calls >>
    /\ UNCHANGED << swConfig, sw_i, sw_results, sw_symbol, sw_to_try, sw_tried,
                    sw_info, sw_fallback >>
    /\ UNCHANGED nonSwVars

\* lines 82-84 and 122-133: the next symbol of the batch enters
\* _collect_stock_info
CollectStockInfoBegin ==
    /\ sw_pc = "symbol"
    /\ sw_batch # << >>
    /\ sw_symbol' = Head(sw_batch)
    /\ sw_batch' = Tail(sw_batch)
    /\ sw_to_try' = collectors_to_try(sw_collectors, sw_preferred)
    /\ sw_tried' = << >>
    /\ sw_info' = SwUnset
    /\ sw_pc' = "try"
    /\ UNCHANGED << swConfig, sw_i, sw_results, sw_batch_results, sw_stock_infos,
                    sw_store_calls, sw_fallback >>
    /\ UNCHANGED nonSwVars

\* lines 135-165: one collector; a StockInfo is returned at once, None and
\* every exception lead to the next collector
TryCollector ==
    /\ sw_pc = "try"
    /\ sw_to_try # << >>
    /\ \E kind \in CollectorKinds :
          LET collector_name == Head(sw_to_try)
          IN  /\ sw_tried' = Append(sw_tried,
                                    [collector |-> collector_name, outcome |-> kind])
              /\ sw_to_try' = Tail(sw_to_try)
              /\ IF kind = "info"
                 THEN /\ sw_info' = StockInfoOf(sw_symbol, collector_name)
                      /\ sw_pc' = "collected"
                 ELSE UNCHANGED << sw_info, sw_pc >>
    /\ UNCHANGED << swConfig, sw_i, sw_results, sw_batch, sw_batch_results,
                    sw_stock_infos, sw_symbol, sw_store_calls, sw_fallback >>
    /\ UNCHANGED nonSwVars

\* lines 167-168: no collector is left, None is returned
CollectStockInfoNone ==
    /\ sw_pc = "try"
    /\ sw_to_try = << >>
    /\ sw_info' = SwNone
    /\ sw_pc' = "collected"
    /\ UNCHANGED << swConfig, sw_i, sw_results, sw_batch, sw_batch_results,
                    sw_stock_infos, sw_symbol, sw_to_try, sw_tried,
                    sw_store_calls, sw_fallback >>
    /\ UNCHANGED nonSwVars

\* lines 85-90: the returned value is counted.  (_collect_stock_info catches
\* every Exception of a collector itself, so lines 92-95 are not entered by
\* what a collector does.)
RecordStockInfo ==
    /\ sw_pc = "collected"
    /\ IF sw_info # SwNone
       THEN /\ sw_stock_infos' = Append(sw_stock_infos, sw_info)
            /\ sw_batch_results' =
                   [sw_batch_results EXCEPT !.success = sw_batch_results.success + 1]
       ELSE /\ sw_batch_results' =
                   [sw_batch_results EXCEPT
                       !.failed = sw_batch_results.failed + 1,
                       !.errors = Append(sw_batch_results.errors,
                                         ErrorEntry(sw_symbol, NoDataText))]
            /\ UNCHANGED sw_stock_infos
    /\ sw_pc' = "symbol"
    /\ UNCHANGED << swConfig, sw_i, sw_results, sw_batch, sw_symbol, sw_to_try,
                    sw_tried, sw_info, sw_store_calls, sw_fallback >>
    /\ UNCHANGED nonSwVars

\* a call of a storage method: the class lacks it (AttributeError), or it
\* returns, or it raises
StoreOutcomes == IF sw_storage_has THEN {"ok", "raises"} ELSE {"AttributeError"}

StoreCall(op, arg, outcome) == [op |-> op, arg |-> arg, outcome |-> outcome]

\* lines 98-105: storage.batch_insert(stock_infos) when any was collected
BatchInsert ==
    /\ sw_pc = "symbol"
    /\ sw_batch = << >>
    /\ IF sw_stock_infos = << >>
       THEN /\ sw_pc' = "merge"
            /\ UNCHANGED << sw_store_calls, sw_fallback >>
       ELSE \E outcome \in StoreOutcomes :
                /\ sw_store_calls' =
                       Append(sw_store_calls,
                              StoreCall("batch_insert", sw_stock_infos, outcome))
                /\ IF outcome = "ok"
                   THEN /\ sw_pc' = "merge"
                        /\ UNCHANGED sw_fallback
                   ELSE /\ sw_pc' = "fallback"
                        /\ sw_fallback' = sw_stock_infos
    /\ UNCHANGED << swConfig, sw_i, sw_results, sw_batch, sw_batch_results,
                    sw_stock_infos, sw_symbol, sw_to_try, sw_tried, sw_info >>
    /\ UNCHANGED nonSwVars

\* mutant of FallbackInsert: an insert that fails ends the loop
FallbackInsert_stop ==
    /\ sw_pc = "fallback"
    /\ sw_fallback # << >>
    /\ \E outcome \in StoreOutcomes :
          /\ sw_store_calls' =
                 Append(sw_store_calls,
                        StoreCall("insert", << Head(sw_fallback) >>, outcome))
          /\ sw_fallback' = IF outcome = "ok" THEN Tail(sw_fallback) ELSE << >>
    /\ UNCHANGED << swConfig, sw_pc, sw_i, sw_results, sw_batch, sw_batch_results,
                    sw_stock_infos, sw_symbol, sw_to_try, sw_tried, sw_info >>
    /\ UNCHANGED nonSwVars

\* lines 175-180: storage.insert(stock_info) for one stock info; a failure
\* is logged and the loop goes on
FallbackInsert ==
    /\ sw_pc = "fallback"
    /\ sw_fallback # << >>
    /\ \E outcome \in StoreOutcomes :
          sw_store_calls' =
              Append(sw_store_calls,
                     StoreCall("insert", << Head(sw_fallback) >>, outcome))
    /\ sw_fallback' = Tail(sw_fallback)
    /\ UNCHANGED << swConfig, sw_pc, sw_i, sw_results, sw_batch, sw_batch_results,
                    sw_stock_infos, sw_symbol, sw_to_try, sw_tried, sw_info >>
    /\ UNCHANGED nonSwVars

\* line 182: _fallback_individual_storage returns
FallbackDone ==
    /\ sw_pc = "fallback"
    /\ sw_fallback = << >>
    /\ sw_pc' = "merge"
    /\ UNCHANGED << swConfig, sw_i, sw_results, sw_batch, sw_batch_results,
                    sw_stock_infos, sw_symbol, sw_to_try, sw_tried, sw_info,
                    sw_store_calls, sw_fallback >>
    /\ UNCHANGED nonSwVars

\* lines 107 and 62-68: the batch results are added and i advances
MergeBatchResults ==
    /\ sw_pc = "merge"
    /\ sw_results' =
           [sw_results EXCEPT
               !.success = sw_results.success + sw_batch_results.success,
               !.failed = sw_results.failed + sw_batch_results.failed,
               !.errors = sw_results.errors \o sw_batch_results.errors]
    /\ sw_i' = sw_i + sw_batch_size
    /\ sw_pc' = "batch"
    /\ UNCHANGED << swConfig, sw_batch, sw_batch_results, sw_stock_infos,
                    sw_symbol, sw_to_try, sw_tried, sw_info, sw_store_calls,
                    sw_fallback >>
    /\ UNCHANGED nonSwVars

(***************************************************************************)
(* BaseCollector._retry_on_failure (src/data/collectors/base_collector.py) *)
(***************************************************************************)
RtNone == [k |-> "none"]
RtInt(n) == [k |-> "int", n |-> n]

retry_count == 3            \* DataCollectorConfig.retry_count
max_retry_delay == 60       \* DataCollectorConfig.max_retry_delay

\* config.retry_delay of a collector
RetryDelays == {1, 30}

\* the max_retries a caller passes
RetryArgs == {RtNone} \cup {RtInt(n) : n \in 0..MaxRetries}

\* what one call of func does: returns, or raises
FuncOutcomes == {"ok", "NetworkError", "APIError", "RateLimitError", "ValueError"}

\* mutant of Retryable: every exception is retried
Retryable_any(outcome) == outcome # "ok"

\* line 245: except (NetworkError, APIError)
Retryable(outcome) == outcome \in {"NetworkError", "APIError"}

RtLocalsUnset ==
    /\ rt_max_retries = 0
    /\ rt_delay = 0
    /\ rt_attempt = 0
    /\ rt_calls = << >>
    /\ rt_slept = << >>

\* lines 236-240
RetryStart ==
    /\ rt_pc = "start"
    /\ rt_max_retries' = IF rt_arg = RtNone THEN retry_count ELSE rt_arg.n
    /\ rt_delay' = rt_retry_delay
    /\ rt_attempt' = 0
    /\ rt_pc' = "loop"
    /\ UNCHANGED << rt_arg, rt_retry_delay, rt_calls, rt_slept >>
    /\ UNCHANGED nonRtVars

\* lines 242-255: one iteration of the loop over range(max_retries + 1)
RetryAttempt ==
    /\ rt_pc = "loop"
    /\ rt_attempt < rt_max_retries + 1
    /\ \E outcome \in FuncOutcomes :
          /\ rt_calls' = Append(rt_calls, outcome)
          /\ IF outcome = "ok"
             THEN /\ rt_pc' = "returned"
                  /\ UNCHANGED << rt_attempt, rt_delay, rt_slept >>
             ELSE IF Retryable(outcome)
             THEN IF rt_attempt < rt_max_retries
                  THEN /\ rt_slept' = Append(rt_slept, rt_delay)
                       /\ rt_delay' = IF rt_delay * 2 < max_retry_delay
                                      THEN rt_delay * 2 ELSE max_retry_delay
                       /\ rt_attempt' = rt_attempt + 1
                       /\ UNCHANGED rt_pc
                  ELSE /\ rt_pc' = "after_loop"
                       /\ UNCHANGED << rt_attempt, rt_delay, rt_slept >>
             ELSE /\ rt_pc' = "raised"
                  /\ UNCHANGED << rt_attempt, rt_delay, rt_slept >>
    /\ UNCHANGED << rt_arg, rt_retry_delay, rt_max_retries >>
    /\ UNCHANGED nonRtVars

\* lines 257-259: raise RetryExhaustedError
RetryExhausted ==
    /\ \/ rt_pc = "after_loop"
       \/ rt_pc = "loop" /\ rt_attempt >= rt_max_retries + 1
    /\ rt_pc' = "RetryExhaustedError"
    /\ UNCHANGED << rt_arg, rt_retry_delay, rt_max_retries, rt_delay, rt_attempt,
                    rt_calls, rt_slept >>
    /\ UNCHANGED nonRtVars

(***************************************************************************)
(* Specifications                                                          *)
(***************************************************************************)
\* no call has started; the locals of map_all_fields do not exist yet
InitLocals ==
    /\ clients = {}
    /\ result = [c \in Calls |-> EmptyDict]
    /\ pending_fields = [c \in Calls |-> {}]
    /\ max_depth = [c \in Calls |-> 0]
    /\ priority_index = [c \in Calls |-> 0]
    /\ api_cache = [c \in Calls |-> EmptyDict]
    /\ apis_to_fetch = [c \in Calls |-> {}]
    /\ to_eval = [c \in Calls |-> {}]
    /\ successfully_fetched = [c \in Calls |-> << >>]
    /\ fetch_log = [c \in Calls |-> << >>]
    /\ events = [c \in Calls |-> << >>]

InitExtractIdle ==
    /\ ex_raw = RawNone
    /\ ex_path = << "a" >>
    /\ ex_out = VNone

\* map_stock_info is not called
InitInfoIdle ==
    /\ info_symbol = << 6, 0, 0, 0, 0, 0 >>
    /\ info_data = [pr \in InfoProviders |-> "none"]
    /\ info_pc = "idle"
    /\ info_index = 0
    /\ info_result = EmptyDict
    /\ missing_fields = {}
    /\ info_calls = << >>

\* convert_to_date is not called
InitDateIdle ==
    /\ date_value = DNone
    /\ tz_offset = 0
    /\ date_out = DNone

\* no WorkflowManager exists
InitWfIdle ==
    /\ wf_initialized = FALSE
    /\ wf_collectors = << >>
    /\ wf_storage = FALSE
    /\ wf_workflow = FALSE
    /\ wf_pc = "none"
    /\ wf_todo = << >>
    /\ wf_last = Ended("none", "none")
    /\ wf_touched = {}
    /\ wf_cleanup_kind = [name \in SeqToSet(CollectorClasses) \cup {"storage"} |-> "absent"]

\* add_stock is not called
InitSvcIdle ==
    /\ svc_outcome = "idle"
    /\ svc_upsert = SvcNoUpsert

\* no StockWorkflow exists
InitSwIdle ==
    /\ sw_collectors = << >>
    /\ sw_storage_has = FALSE
    /\ sw_symbols = << >>
    /\ sw_preferred = "None"
    /\ sw_batch_size = 100
    /\ sw_pc = "idle"
    /\ SwLocalsUnset

\* _retry_on_failure is not called
InitRtIdle ==
    /\ rt_arg = RtNone
    /\ rt_retry_delay = 1
    /\ rt_pc = "idle"
    /\ RtLocalsUnset

\* one map_all_fields call on any plan, registry, params and provider answers
Init ==
    /\ field_mapping \in Plans
    /\ \E setup \in Setups :
          /\ api_configs = setup.api_configs
          /\ params = [c \in Calls |-> ParamsOf(c, setup.keys)]
          /\ resp \in {r \in Responses :
                \A api \in Apis :
                    ~Reaches(setup.api_configs, api, ParamsOf(1, setup.keys))
                        => r[api] = "none"}
    /\ pc = [c \in Calls |-> IF c = 1 THEN "start" ELSE "idle"]
    /\ InitLocals
    /\ InitExtractIdle
    /\ InitInfoIdle
    /\ InitDateIdle
    /\ InitWfIdle
    /\ InitSvcIdle
    /\ InitSwIdle
    /\ InitRtIdle

MapperNext ==
    \E c \in Calls :
        \/ Start(c)
        \/ LoopHead(c)
        \/ FetchApi(c)
        \/ BeginEval(c)
        \/ EvalField(c)
        \/ RemoveFetched(c)
        \/ Finish(c)

Next == MapperNext

Spec == Init /\ [][Next]_vars

\* _extract_value on every raw result and path of the pools
InitExtract ==
    /\ field_mapping = EmptyDict
    /\ api_configs = BaseConfigs
    /\ resp = [api \in Apis |-> "none"]
    /\ params = [c \in Calls |-> ParamsOf(c, {"symbol"})]
    /\ pc = [c \in Calls |-> "idle"]
    /\ InitLocals
    /\ ex_raw \in ExtractRaws
    /\ ex_path \in ExtractPaths
    /\ ex_out = Unset
    /\ InitInfoIdle
    /\ InitDateIdle
    /\ InitWfIdle
    /\ InitSvcIdle
    /\ InitSwIdle
    /\ InitRtIdle

NextExtract == Extract

SpecExtract == InitExtract /\ [][NextExtract]_vars

\* one add_stock call, and the map_stock_info call it makes, on any symbol
\* and provider answers
InitInfo ==
    /\ field_mapping = EmptyDict
    /\ api_configs = BaseConfigs
    /\ resp = [api \in Apis |-> "none"]
    /\ params = [c \in Calls |-> ParamsOf(c, {"symbol"})]
    /\ pc = [c \in Calls |-> "idle"]
    /\ InitLocals
    /\ InitExtractIdle
    /\ info_symbol \in InfoSymbols
    /\ info_data \in InfoResponses
    /\ info_pc = "start"
    /\ info_index = 0
    /\ info_result = EmptyDict
    /\ missing_fields = {}
    /\ info_calls = << >>
    /\ InitDateIdle
    /\ InitWfIdle
    /\ svc_outcome = "running"
    /\ svc_upsert = SvcNoUpsert
    /\ InitSwIdle
    /\ InitRtIdle

NextInfo == InfoStart \/ InfoTry \/ InfoReturn \/ AddStock

SpecInfo == InitInfo /\ [][NextInfo]_vars

\* convert_to_date on every value of the pool, on hosts of every time zone
InitDate ==
    /\ field_mapping = EmptyDict
    /\ api_configs = BaseConfigs
    /\ resp = [api \in Apis |-> "none"]
    /\ params = [c \in Calls |-> ParamsOf(c, {"symbol"})]
    /\ pc = [c \in Calls |-> "idle"]
    /\ InitLocals
    /\ InitExtractIdle
    /\ InitInfoIdle
    /\ date_value \in DateInputs
    /\ tz_offset \in TzOffsets
    /\ date_out = DateUnset
    /\ InitWfIdle
    /\ InitSvcIdle
    /\ InitSwIdle
    /\ InitRtIdle

NextDate == ConvertToDate

SpecDate == InitDate /\ [][NextDate]_vars

\* a WorkflowManager after __init__ (lines 26-31), and any sequence of its
\* operations; the registered objects clean up in any of the three ways
InitWf ==
    /\ field_mapping = EmptyDict
    /\ api_configs = BaseConfigs
    /\ resp = [api \in Apis |-> "none"]
    /\ params = [c \in Calls |-> ParamsOf(c, {"symbol"})]
    /\ pc = [c \in Calls |-> "idle"]
    /\ InitLocals
    /\ InitExtractIdle
    /\ InitInfoIdle
    /\ date_value = DNone
    /\ tz_offset = 0
    /\ date_out = DNone
    /\ wf_initialized = FALSE
    /\ wf_collectors = << >>
    /\ wf_storage = FALSE
    /\ wf_workflow = FALSE
    /\ wf_pc = "idle"
    /\ wf_todo = << >>
    /\ wf_last = Ended("__init__", "returned")
    /\ wf_touched = {}
    /\ wf_cleanup_kind \in [SeqToSet(CollectorClasses) \cup {"storage"} -> CleanupKinds]
    /\ InitSvcIdle
    /\ InitSwIdle
    /\ InitRtIdle

NextWf ==
    \/ InitializeCollectors
    \/ InitializeStorage
    \/ InitializeWorkflows
    \/ RunStockInfoCollection
    \/ RunHistoricalDataCollection
    \/ RunDailyUpdate
    \/ RunFullUpdate
    \/ GetSystemStatus
    \/ CleanupStart
    \/ CleanupCollector
    \/ CleanupStorage

SpecWf == InitWf /\ [][NextWf]_vars

\* one collect_and_store_stock_info call of a StockWorkflow built with any
\* collectors dict and storage, on any symbols, preference and batch size
InitSw ==
    /\ field_mapping = EmptyDict
    /\ api_configs = BaseConfigs
    /\ resp = [api \in Apis |-> "none"]
    /\ params = [c \in Calls |-> ParamsOf(c, {"symbol"})]
    /\ pc = [c \in Calls |-> "idle"]
    /\ InitLocals
    /\ InitExtractIdle
    /\ InitInfoIdle
    /\ InitDateIdle
    /\ InitWfIdle
    /\ InitSvcIdle
    /\ sw_collectors \in CollectorDicts
    /\ sw_storage_has \in BOOLEAN
    /\ sw_symbols \in SymbolLists
    /\ sw_preferred \in PreferredCollectors
    /\ sw_batch_size \in BatchSizes
    /\ sw_pc = "start"
    /\ SwLocalsUnset
    /\ InitRtIdle

NextSw ==
    \/ CollectAndStoreStart
    \/ ProcessBatchBegin
    \/ CollectStockInfoBegin
    \/ TryCollector
    \/ CollectStockInfoNone
    \/ RecordStockInfo
    \/ BatchInsert
    \/ FallbackInsert
    \/ FallbackDone
    \/ MergeBatchResults

SpecSw == InitSw /\ [][NextSw]_vars

\* one _retry_on_failure call with any max_retries, on a func that returns
\* or raises at each call
InitRetry ==
    /\ field_mapping = EmptyDict
    /\ api_configs = BaseConfigs
    /\ resp = [api \in Apis |-> "none"]
    /\ params = [c \in Calls |-> ParamsOf(c, {"symbol"})]
    /\ pc = [c \in Calls |-> "idle"]
    /\ InitLocals
    /\ InitExtractIdle
    /\ InitInfoIdle
    /\ InitDateIdle
    /\ InitWfIdle
    /\ InitSvcIdle
    /\ InitSwIdle
    /\ rt_arg \in RetryArgs
    /\ rt_retry_delay \in RetryDelays
    /\ rt_pc = "start"
    /\ RtLocalsUnset

NextRetry == RetryStart \/ RetryAttempt \/ RetryExhausted

SpecRetry == InitRetry /\ [][NextRetry]_vars

\* two concurrent map_all_fields calls of one mapper, for different entities
ConcChains(f) ==
    {[i \in 1..Len(q) |-> Entry(f, q[i])] :
        q \in {<< "EP1" >>, << "EP1", "EP2" >>, << "EP2", "EP1" >>}}

ConcPlans == {plan \in Plans : plan # EmptyDict /\ \A f \in Fields : plan[f] \in ConcChains(f)}

InitConc ==
    /\ field_mapping \in ConcPlans
    /\ api_configs = BaseConfigs
    /\ params = [c \in Calls |-> ParamsOf(c, {"symbol"})]
    /\ resp \in Responses
    /\ pc = [c \in Calls |-> "start"]
    /\ InitLocals
    /\ InitExtractIdle
    /\ InitInfoIdle
    /\ InitDateIdle
    /\ InitWfIdle
    /\ InitSvcIdle
    /\ InitSwIdle
    /\ InitRtIdle

SpecConc == InitConc /\ [][Next]_vars

(***************************************************************************)
(* What the plan and the providers determine, independently of the loop    *)
(***************************************************************************)
\* what _fetch_api returns for api_name in call c
Returned(c, api_name) ==
    _fetch_api(api_configs, resp, {}, api_name, params[c])

\* the value chain entry d of field f yields in call c, VNone if none
EntryValue(c, f, d) ==
    LET fallback_config == field_mapping[f][d]
        got == Returned(c, fallback_config.api)
    IN  IF got.raw = RawNone THEN VNone
        ELSE FieldValue((fallback_config.api :> got.raw), fallback_config)

\* the chain positions of f that yield a value
Yielding(c, f) ==
    {d \in 1..Len(field_mapping[f]) : EntryValue(c, f, d) # VNone}

Min(S) == CHOOSE x \in S : \A y \in S : x <= y

\* how often client.fetch was invoked for api_name during call c
FetchCount(c, api_name) ==
    Cardinality({i \in 1..Len(fetch_log[c]) : fetch_log[c][i].api = api_name})

PlanFields == DOMAIN field_mapping

(***************************************************************************)
(* C1  First-write-wins: whenever result holds a field, the value is the   *)
(* (transformed) value of the lowest chain entry that yields one, whatever *)
(* later entries yield; and at return every field with a yielding entry is *)
(* in result.                                                              *)
(***************************************************************************)
C1_FirstWriteWins ==
    \A c \in Calls :
        /\ \A f \in DOMAIN result[c] :
              /\ Yielding(c, f) # {}
              /\ result[c][f] = EntryValue(c, f, Min(Yielding(c, f)))
        /\ pc[c] = "done" =>
              \A f \in PlanFields : Yielding(c, f) # {} => f \in DOMAIN result[c]

\* a returned field resolved by its first entry although its second entry
\* yields a different value
C1_Witness ==
    /\ pc[1] = "done"
    /\ \E f \in DOMAIN result[1] :
          /\ Yielding(1, f) = {1, 2}
          /\ EntryValue(1, f, 1) # EntryValue(1, f, 2)
          /\ result[1][f] = EntryValue(1, f, 1)

(***************************************************************************)
(* C2  During one map_all_fields call client.fetch is invoked at most once *)
(* for any api name.                                                       *)
(***************************************************************************)
C2_FetchAtMostOnce ==
    \A c \in Calls : \A api_name \in Apis : FetchCount(c, api_name) <= 1

(***************************************************************************)
(* C3  Call minimization: an api that two distinct fields name at the same *)
(* chain position, and that is fetched for that position, is fetched       *)
(* exactly once during the call.                                           *)
(***************************************************************************)
SharedAt(api_name, d) ==
    \E f, g \in PlanFields :
        /\ f # g
        /\ d <= Len(field_mapping[f]) /\ d <= Len(field_mapping[g])
        /\ field_mapping[f][d].api = api_name
        /\ field_mapping[g][d].api = api_name

C3_SharedFetchedOnce ==
    \A c \in Calls : \A api_name \in Apis :
        (\E i \in 1..Len(fetch_log[c]) :
            /\ fetch_log[c][i].api = api_name
            /\ SharedAt(api_name, fetch_log[c][i].depth + 1))
        => FetchCount(c, api_name) = 1

(***************************************************************************)
(* C4  Disjointness.  Original: the keys of result and pending_fields have *)
(* no field in common in any state.  Amended: they have none at every      *)
(* depth boundary and at return; inside the extraction loop of a depth     *)
(* they share exactly the fields of successfully_fetched.                  *)
(***************************************************************************)
C4_AlwaysDisjoint ==
    \A c \in Calls : (DOMAIN result[c]) \cap pending_fields[c] = {}

C4_DisjointAtBoundaries ==
    \A c \in Calls :
        (DOMAIN result[c]) \cap pending_fields[c] =
            IF pc[c] = "eval" THEN SeqToSet(successfully_fetched[c]) ELSE {}

\* a call that returned after a depth resolved one field and left one pending
C4_Witness ==
    /\ pc[1] = "done"
    /\ DOMAIN result[1] # {}
    /\ pending_fields[1] # {}
    /\ priority_index[1] >= 2

(***************************************************************************)
(* C5  Failure isolation: when the fetch of one endpoint raises, a field   *)
(* whose chain has an entry on a different endpoint that yields a value is *)
(* in the returned result.                                                 *)
(***************************************************************************)
\* the endpoints of the plan whose _fetch_api raises (and is caught)
RaisingApis(c) ==
    {api_name \in Apis :
        /\ \E f \in PlanFields : \E d \in 1..Len(field_mapping[f]) :
              field_mapping[f][d].api = api_name
        /\ Returned(c, api_name).raised}

\* the fields with a yielding entry on an endpoint other than a raising one
Isolated(c) ==
    {f \in PlanFields :
        \E d \in Yielding(c, f) :
            \E bad \in RaisingApis(c) : bad # field_mapping[f][d].api}

C5_FailureIsolation ==
    \A c \in Calls :
        pc[c] \in {"done", "raised"} /\ Isolated(c) # {} =>
            /\ pc[c] = "done"
            /\ Isolated(c) \subseteq DOMAIN result[c]

\* a returned call in which an endpoint raised at depth 0 and a field was
\* resolved from another endpoint
C5_Witness ==
    /\ pc[1] = "done"
    /\ \E f \in Isolated(1) :
          /\ f \in DOMAIN result[1]
          /\ field_mapping[f][1].api \in RaisingApis(1)

(***************************************************************************)
(* C6  Missing normalization: _extract_value never returns an empty string *)
(* or a NaN marker; like null they come out as None, for a row table and   *)
(* for a nested map.                                                       *)
(***************************************************************************)
C6_MissingNormalized ==
    ex_out # Unset => ex_out \notin {VStr(""), VNaN}

(***************************************************************************)
(* C7  map_all_fields never raises: no call ends in an exception.          *)
(***************************************************************************)
C7_NeverRaises ==
    \A c \in Calls : pc[c] # "raised"

(***************************************************************************)
(* C8  Scenario A: every field has the chain [A, B], the fetch of A fails  *)
(* and B yields a value for every field.  Then the call returns every      *)
(* field with its value from B, nothing stays pending and A and B are each *)
(* fetched once.                                                           *)
(***************************************************************************)
ScenarioA(c, A, B) ==
    /\ A # B
    /\ PlanFields # {}
    /\ \A f \in PlanFields :
          /\ Len(field_mapping[f]) = 2
          /\ field_mapping[f][1].api = A
          /\ field_mapping[f][2].api = B
          /\ EntryValue(c, f, 2) # VNone
    /\ Returned(c, A).called
    /\ Returned(c, A).raw = RawNone

C8_ScenarioA ==
    \A c \in Calls : \A A, B \in Apis :
        pc[c] \in {"done", "raised"} /\ ScenarioA(c, A, B) =>
            /\ pc[c] = "done"
            /\ DOMAIN result[c] = PlanFields
            /\ \A f \in PlanFields : result[c][f] = EntryValue(c, f, 2)
            /\ pending_fields[c] = {}
            /\ FetchCount(c, A) = 1
            /\ FetchCount(c, B) = 1

C8_Witness ==
    /\ pc[1] = "done"
    /\ \E A, B \in Apis : ScenarioA(1, A, B)
    /\ DOMAIN result[1] = Fields

(***************************************************************************)
(* C10  No cache leakage between concurrent calls: a call's cache holds    *)
(* only what the provider answers to its own parameters, it fetches with   *)
(* its own parameters, its result holds only values of its own chain       *)
(* entries, and it fetches every endpoint of depth 0 itself.               *)
(***************************************************************************)
C10_NoLeakage ==
    \A c \in Calls :
        /\ \A api_name \in DOMAIN api_cache[c] :
              api_cache[c][api_name] = Returned(c, api_name).raw
        /\ \A i \in 1..Len(fetch_log[c]) :
              fetch_log[c][i].params = Returned(c, fetch_log[c][i].api).mapped_params
        /\ \A f \in DOMAIN result[c] :
              \E d \in 1..Len(field_mapping[f]) : result[c][f] = EntryValue(c, f, d)
        /\ pc[c] = "done" =>
              \A f \in PlanFields :
                  Len(field_mapping[f]) > 0 /\ Returned(c, field_mapping[f][1].api).called
                      => FetchCount(c, field_mapping[f][1].api) >= 1

\* both calls are inside the same depth, each holding its own answer of the
\* same endpoint, fetched with its own parameters
C10_Witness ==
    /\ pc[1] = "eval" /\ pc[2] = "eval"
    /\ \E api_name \in (DOMAIN api_cache[1]) \cap (DOMAIN api_cache[2]) :
          /\ api_cache[1][api_name] # api_cache[2][api_name]
          /\ \E i \in 1..Len(fetch_log[1]) : \E j \in 1..Len(fetch_log[2]) :
                /\ fetch_log[1][i].api = api_name
                /\ fetch_log[2][j].api = api_name
                /\ fetch_log[1][i].params # fetch_log[2][j].params

(***************************************************************************)
(* C9  Global-chain early stop: map_stock_info invokes the provider        *)
(* functions in API_PRIORITY_CONFIG order, never invokes one when no field *)
(* is missing, and invokes only the first when it supplies every field of  *)
(* ALL_FIELDS.                                                             *)
(***************************************************************************)
C9_EarlyStop ==
    /\ Len(info_calls) <= Len(API_PRIORITY_CONFIG)
    /\ \A i \in 1..Len(info_calls) :
          /\ info_calls[i].name = API_PRIORITY_CONFIG[i].name
          /\ info_calls[i].needed # {}
    /\ info_pc = "done" /\
       DOMAIN fetch_func(API_PRIORITY_CONFIG[1], info_data, SeqToSet(ALL_FIELDS))
           = SeqToSet(ALL_FIELDS)
       => Len(info_calls) = 1

\* the first provider supplied every field and the call returned after it
C9_Witness ==
    /\ info_pc = "done"
    /\ Len(info_calls) = 1
    /\ missing_fields = {}
    /\ SeqToSet(ALL_FIELDS) \subseteq DOMAIN info_result

(***************************************************************************)
(* History helpers                                                         *)
(***************************************************************************)
\* the endpoints the plan names at some chain position
PlanApis ==
    UNION {{field_mapping[f][d].api : d \in 1..Len(field_mapping[f])} : f \in PlanFields}

(***************************************************************************)
(* C11  A plan naming an endpoint that the registry lacks is rejected when *)
(* the mapper is constructed: _fetch_api is never the first to find out,   *)
(* so no _fetch_api call returns from its "not found in API configs" line. *)
(***************************************************************************)
C11_RejectedAtConstruction ==
    \A c \in Calls : \A i \in 1..Len(events[c]) :
        events[c][i].outcome # "unregistered"

(***************************************************************************)
(* C12  The caller's params are never changed: no step of map_all_fields   *)
(* adds, removes or rewrites a key of params.                              *)
(***************************************************************************)
C12_ParamsUntouched == [][params' = params]_vars

\* a returned call that fetched one endpoint with translated parameters and
\* failed on another, the params being those the caller passed
C12_Witness ==
    /\ pc[1] = "done"
    /\ \E i, j \in 1..Len(events[1]) :
          /\ events[1][i].outcome = "ok"
          /\ events[1][j].outcome \in {"missing_param", "fetch_raised", "no_client"}
    /\ \E i \in 1..Len(fetch_log[1]) :
          DOMAIN fetch_log[1][i].params # DOMAIN params[1]
    /\ params[1] = ParamsOf(1, DOMAIN params[1])

(***************************************************************************)
(* C13  A required input parameter that params lacks fails that endpoint   *)
(* only: its _fetch_api call reports the failure without calling the       *)
(* client, the call still returns, and every field with a yielding entry   *)
(* on an endpoint whose parameters are present is in the result.           *)
(***************************************************************************)
\* the registered endpoints with an input parameter that params[c] lacks
MissingParamApis(c) ==
    {api_name \in Apis \cap DOMAIN api_configs :
        \E api_param \in DOMAIN api_configs[api_name].param_mapping :
            api_configs[api_name].param_mapping[api_param] \notin DOMAIN params[c]}

C13_MissingParamIsolated ==
    \A c \in Calls :
        /\ \A i \in 1..Len(events[c]) :
              events[c][i].ev = "fetch" /\ events[c][i].name \in MissingParamApis(c)
                  => events[c][i].outcome = "missing_param"
        /\ \A api_name \in MissingParamApis(c) : FetchCount(c, api_name) = 0
        /\ pc[c] \in {"done", "raised"} /\ PlanApis \cap MissingParamApis(c) # {} =>
              /\ pc[c] = "done"
              /\ \A f \in PlanFields :
                    (\E d \in Yielding(c, f) :
                        field_mapping[f][d].api \notin MissingParamApis(c))
                        => f \in DOMAIN result[c]

\* a returned call whose first endpoint lacked a parameter and which resolved
\* a field from the next endpoint of its chain
C13_Witness ==
    /\ pc[1] = "done"
    /\ \E f \in DOMAIN result[1] :
          /\ Len(field_mapping[f]) = 2
          /\ field_mapping[f][1].api \in MissingParamApis(1)
          /\ field_mapping[f][2].api \notin MissingParamApis(1)
    /\ \E i \in 1..Len(events[1]) : events[1][i].outcome = "missing_param"

(***************************************************************************)
(* C14  _extract_value reports a raw result that is neither a row table    *)
(* nor a nested map as an error: it does not return None, the value that   *)
(* means "missing", for such a shape.                                      *)
(***************************************************************************)
C14_UnknownShapeSignalled ==
    ex_out # Unset /\ ex_raw.tag \notin {"table", "dict", "none"} => ex_out # VNone

(***************************************************************************)
(* C15  Depth ordering: the history of a call never goes back to a lower   *)
(* depth; within a depth every _fetch_api call precedes every evaluation,  *)
(* no fetch is outstanding while fields are evaluated and no evaluation is *)
(* outstanding while apis are fetched; and the chain entry of a field at   *)
(* depth d + 1 is evaluated only after its entry at depth d was evaluated  *)
(* and gave no value.                                                      *)
(***************************************************************************)
C15_DepthOrdering ==
    \A c \in Calls :
        /\ pc[c] = "eval" => apis_to_fetch[c] = {}
        /\ pc[c] = "fetch" => to_eval[c] = {}
        /\ \A i, j \in 1..Len(events[c]) :
              i < j =>
                  /\ events[c][i].depth <= events[c][j].depth
                  /\ events[c][i].depth = events[c][j].depth =>
                        ~(events[c][i].ev = "eval" /\ events[c][j].ev = "fetch")
        /\ \A j \in 1..Len(events[c]) :
              events[c][j].ev = "eval" /\ events[c][j].depth > 0 =>
                  \E i \in 1..(j - 1) :
                      /\ events[c][i].ev = "eval"
                      /\ events[c][i].name = events[c][j].name
                      /\ events[c][i].depth = events[c][j].depth - 1
                      /\ events[c][i].outcome = "missing"

\* a returned call that fetched two endpoints at depth 0, evaluated a field
\* without a value there, fetched at depth 1 and resolved the field
C15_Witness ==
    /\ pc[1] = "done"
    /\ \E i, j, k, l, m \in 1..Len(events[1]) :
          /\ i < j /\ j < k /\ k < l /\ l < m
          /\ events[1][i].ev = "fetch" /\ events[1][i].depth = 0
          /\ events[1][j].ev = "fetch" /\ events[1][j].depth = 0
          /\ events[1][k].ev = "eval" /\ events[1][k].depth = 0
          /\ events[1][k].outcome = "missing"
          /\ events[1][l].ev = "fetch" /\ events[1][l].depth = 1
          /\ events[1][m].ev = "eval" /\ events[1][m].depth = 1
          /\ events[1][m].name = events[1][k].name
          /\ events[1][m].outcome = "value"

(***************************************************************************)
(* C16  Merge without overwrite in map_stock_info: a key of result keeps   *)
(* its value in every later step (market, status and tracking included),   *)
(* and _merge_fields keeps every value of result whatever a provider       *)
(* offers, adding exactly the offered keys that result lacks.              *)
(***************************************************************************)
\* every field a provider function can be asked for
AllInfoFields == SeqToSet(ALL_FIELDS) \cup {"market", "status", "tracking"}

\* what provider i would return when asked for every field
Offered(i) == fetch_func(API_PRIORITY_CONFIG[i], info_data, AllInfoFields)

MergeKeeps ==
    \A i \in 1..Len(API_PRIORITY_CONFIG) :
        LET merged == _merge_fields(info_result, Offered(i), missing_fields).result
        IN  /\ DOMAIN merged = (DOMAIN info_result) \cup DOMAIN Offered(i)
            /\ \A key \in DOMAIN info_result : merged[key] = info_result[key]
            /\ \A key \in (DOMAIN Offered(i)) \ DOMAIN info_result :
                  merged[key] = Offered(i)[key]

ResultKeeps ==
    \A key \in DOMAIN info_result :
        key \in DOMAIN info_result' /\ info_result'[key] = info_result[key]

C16_NoOverwrite == [](info_pc # "idle" => MergeKeeps) /\ [][ResultKeeps]_vars

\* a returned call in which a provider consulted after the first one offers
\* another value for a key that result already held
C16_Witness ==
    /\ info_pc = "done"
    /\ \E j \in 2..Len(info_calls) : \E key \in DOMAIN info_result :
          /\ key \notin info_calls[j].needed
          /\ key \in DOMAIN Offered(j)
          /\ Offered(j)[key] # info_result[key]
    /\ {"market", "status", "tracking"} \subseteq DOMAIN info_result

(***************************************************************************)
(* C17  A param_mapping entry maps the caller's parameter name (key) to    *)
(* the endpoint's parameter name (value): whenever _fetch_api is called    *)
(* for a registered endpoint whose param_mapping keys are all in params,   *)
(* the client is called with each value name bound to the caller's value   *)
(* of its key, so the shipped EP2 is fetched from params {symbol}.         *)
(***************************************************************************)
\* the parameters the claim expects the client to get
KeyToValueParams(c, api_name) ==
    LET pm == api_configs[api_name].param_mapping
    IN  [target \in Range(pm) |->
            params[c][CHOOSE key \in DOMAIN pm : pm[key] = target]]

C17_KeyIsInputName ==
    \A c \in Calls : \A i \in 1..Len(events[c]) :
        LET e == events[c][i]
        IN  /\ e.ev = "fetch"
            /\ e.name \in DOMAIN api_configs
            /\ DOMAIN api_configs[e.name].param_mapping \subseteq DOMAIN params[c]
            => \E j \in 1..Len(fetch_log[c]) :
                  /\ fetch_log[c][j].api = e.name
                  /\ fetch_log[c][j].depth = e.depth
                  /\ fetch_log[c][j].params = KeyToValueParams(c, e.name)

(***************************************************************************)
(* C18  The date transform of a millisecond epoch v is the date lying      *)
(* v / 1000 / 86400 whole days after 1970-01-01, whatever the time zone of *)
(* the host; for v = 760291200000 it is 1994-02-15.                        *)
(***************************************************************************)
C18_EpochDate ==
    date_out # DateUnset /\ date_value.k = "int" /\ IsMilliseconds(date_value) =>
        /\ date_out = CivilFromDays(date_value.secs \div 86400)
        /\ date_value = DInt(760291200, 0) => date_out = DDate(1994, 2, 15)

(***************************************************************************)
(* C19  WorkflowManager guards its operations: a run_* operation invoked   *)
(* while _initialized is False raises "not initialised" and calls nothing  *)
(* on a collector, the storage or a workflow; _initialized is set only by  *)
(* the last step of initialize, after the collectors, the storage and the  *)
(* workflow were set up, and while it is True all three exist.             *)
(***************************************************************************)
RunOps == {"run_stock_info_collection", "run_historical_data_collection",
           "run_daily_update", "run_full_update"}

GuardedStep ==
    /\ wf_pc = "idle" /\ wf_pc' = "idle" /\ wf_last'.op \in RunOps
       /\ ~wf_initialized
       => /\ wf_last'.outcome = "not_initialized"
          /\ wf_touched' = {}
          /\ UNCHANGED << wf_collectors, wf_storage, wf_workflow >>
    /\ ~wf_initialized /\ wf_initialized'
       => /\ wf_pc = "init_workflows"
          /\ wf_collectors # << >> /\ wf_storage /\ wf_workflow'
          /\ wf_last' = Ended("initialize", "true")

C19_Guarded ==
    /\ [](wf_initialized => wf_collectors # << >> /\ wf_storage /\ wf_workflow)
    /\ [][GuardedStep]_vars

\* a run_* operation refused on a manager that was initialised and cleaned
\* up before, so that collectors, storage and workflow exist
C19_Witness ==
    /\ wf_last.op \in RunOps
    /\ wf_last.outcome = "not_initialized"
    /\ wf_touched = {}
    /\ wf_collectors # << >> /\ wf_storage /\ wf_workflow

(***************************************************************************)
(* C20  After cleanup() returned, _initialized is False, also when the     *)
(* cleanup of a collector or of the storage raised.                        *)
(***************************************************************************)
C20_CleanupResets ==
    wf_pc = "idle" /\ wf_last = Ended("cleanup", "returned") => ~wf_initialized

(***************************************************************************)
(* History of one call, read from events                                   *)
(***************************************************************************)
\* the chain entry of field f at depth d (0-based) was consulted
Evaluated(c, f, d) ==
    \E i \in 1..Len(events[c]) :
        /\ events[c][i].ev = "eval"
        /\ events[c][i].name = f
        /\ events[c][i].depth = d

\* field f got its value at depth d (0-based)
ResolvedAt(c, f, d) ==
    \E i \in 1..Len(events[c]) :
        events[c][i] = [ev |-> "eval", name |-> f, depth |-> d, outcome |-> "value"]

\* field f was still in pending_fields when depth d (0-based) started
PendingAtStartOf(c, f, d) ==
    \A k \in 0..(d - 1) : ~ResolvedAt(c, f, k)

\* depth d (0-based) of call c is over
DepthOver(c, d) ==
    \/ pc[c] = "done"
    \/ pc[c] \in {"loop", "fetch", "eval", "finish"} /\ priority_index[c] > d

(***************************************************************************)
(* C23  From the first line of the loop to the return every declared field *)
(* is a key of result or a member of pending_fields, never neither; a      *)
(* field is never evaluated beyond the end of its chain and is pending     *)
(* while it has no value; and at return every field whose whole chain      *)
(* gave no value is in pending_fields, the set line 236-239 reports.       *)
(***************************************************************************)
C23_ResultOrPending ==
    \A c \in Calls :
        /\ pc[c] \notin {"idle", "start", "raised"} =>
              PlanFields = (DOMAIN result[c]) \cup pending_fields[c]
        /\ \A i \in 1..Len(events[c]) :
              events[c][i].ev = "eval" =>
                  events[c][i].depth < Len(field_mapping[events[c][i].name])
        /\ pc[c] = "done" =>
              \A f \in PlanFields :
                  Yielding(c, f) = {} => f \in pending_fields[c] /\ f \notin DOMAIN result[c]

\* a returned call that went through depth 1 for one field while the other,
\* whose chain has one entry without a value, was skipped and is pending
C23_Witness ==
    /\ pc[1] = "done"
    /\ \E f, g \in PlanFields :
          /\ Len(field_mapping[f]) = 1
          /\ Evaluated(1, f, 0)
          /\ f \in pending_fields[1] /\ f \notin DOMAIN result[1]
          /\ ResolvedAt(1, g, 1)

(***************************************************************************)
(* C24  A transform that raises fails that (field, endpoint) pair only:    *)
(* the evaluation gives no value, the field stays pending through the      *)
(* depth and its next chain entry is evaluated; every other field pending  *)
(* at that depth on the same cached endpoint is evaluated and gets the     *)
(* value its own entry yields.                                             *)
(***************************************************************************)
\* the transform of chain entry d (1-based) of field f raises on the value
\* extracted from the endpoint's answer
TransformRaises(c, f, d) ==
    LET fallback_config == field_mapping[f][d]
        got == Returned(c, fallback_config.api)
        value == _extract_value(got.raw, fallback_config.field)
    IN  /\ got.raw # RawNone
        /\ value # VNone
        /\ fallback_config.transform # "none"
        /\ ApplyTransform(fallback_config.transform, value).raised

C24_TransformIsolated ==
    \A c \in Calls : \A f \in PlanFields : \A d \in 1..Len(field_mapping[f]) :
        TransformRaises(c, f, d) /\ Evaluated(c, f, d - 1) =>
            /\ ~ResolvedAt(c, f, d - 1)
            /\ priority_index[c] = d - 1 /\ pc[c] = "eval" => f \in pending_fields[c]
            /\ pc[c] = "done" /\ d < Len(field_mapping[f]) => Evaluated(c, f, d)
            /\ DepthOver(c, d - 1) =>
                  \A g \in PlanFields \ {f} :
                      /\ d <= Len(field_mapping[g])
                      /\ field_mapping[g][d].api = field_mapping[f][d].api
                      /\ PendingAtStartOf(c, g, d - 1)
                      => /\ Evaluated(c, g, d - 1)
                         /\ IF EntryValue(c, g, d) = VNone
                            THEN ~ResolvedAt(c, g, d - 1)
                            ELSE /\ ResolvedAt(c, g, d - 1)
                                 /\ result[c][g] = EntryValue(c, g, d)

\* a returned call in which the transform of one field raised at depth 0,
\* the other field was resolved there from the same endpoint, and the first
\* field was resolved by its next chain entry
C24_Witness ==
    /\ pc[1] = "done"
    /\ \E f, g \in PlanFields :
          /\ f # g
          /\ Len(field_mapping[f]) = 2
          /\ TransformRaises(1, f, 1)
          /\ field_mapping[g][1].api = field_mapping[f][1].api
          /\ ResolvedAt(1, g, 0)
          /\ ResolvedAt(1, f, 1)

(***************************************************************************)
(* C25  Only what is needed is fetched: every _fetch_api call at a depth   *)
(* is for an endpoint standing at that depth in the chain of a field that  *)
(* was pending when the depth started, each such endpoint is asked once    *)
(* per depth, and nothing is waiting to be fetched while pending_fields is *)
(* empty.                                                                  *)
(***************************************************************************)
C25_FetchOnlyNeeded ==
    \A c \in Calls :
        /\ \A i \in 1..Len(events[c]) :
              events[c][i].ev = "fetch" =>
                  /\ \E f \in PlanFields :
                        /\ events[c][i].depth < Len(field_mapping[f])
                        /\ field_mapping[f][events[c][i].depth + 1].api = events[c][i].name
                        /\ PendingAtStartOf(c, f, events[c][i].depth)
                  /\ \A j \in 1..Len(events[c]) :
                        /\ events[c][j].ev = "fetch"
                        /\ events[c][j].name = events[c][i].name
                        /\ events[c][j].depth = events[c][i].depth
                        => j = i
        /\ pending_fields[c] = {} => apis_to_fetch[c] = {}

\* a returned call that fetched at depth 1 but not the endpoint that only a
\* field resolved at depth 0 names there
C25_Witness ==
    /\ pc[1] = "done"
    /\ \E f \in PlanFields : \E A \in Apis :
          /\ ResolvedAt(1, f, 0)
          /\ Len(field_mapping[f]) = 2
          /\ field_mapping[f][2].api = A
          /\ \E i \in 1..Len(events[1]) :
                events[1][i].ev = "fetch" /\ events[1][i].depth = 1
          /\ \A i \in 1..Len(events[1]) :
                events[1][i].ev = "fetch" /\ events[1][i].depth = 1
                    => events[1][i].name # A

(***************************************************************************)
(* C26  _extract_value on a nested map walks the segments of the path in   *)
(* order: it returns the value at the end of the path when every segment   *)
(* names a key of a map, and None as soon as a segment is absent or the    *)
(* current value is not a map.  On a row table it looks the whole path up  *)
(* as one column of the first row, never of a later row, and returns None  *)
(* for an empty table.                                                     *)
(***************************************************************************)
Absent == [k |-> "absent"]

\* the value the first n segments of path lead to inside root, Absent when
\* one of them is no key of a map
RECURSIVE ValueAt(_, _, _)
ValueAt(root, path, n) ==
    IF n = 0 THEN root
    ELSE LET parent == ValueAt(root, path, n - 1)
         IN  IF parent.k = "map" /\ path[n] \in DOMAIN parent.m
             THEN parent.m[path[n]]
             ELSE Absent

C26_PathWalk ==
    ex_out # Unset =>
        /\ ex_raw.tag = "dict" =>
              LET end == ValueAt(VMap(ex_raw.m), ex_path, Len(ex_path))
              IN  ex_out = IF end = Absent THEN VNone ELSE end
        /\ ex_raw.tag = "table" =>
              /\ Len(ex_raw.rows) = 0 => ex_out = VNone
              /\ ex_out # VNone =>
                    /\ Join(ex_path) \in ex_raw.columns
                    /\ ex_out = ex_raw.rows[1][Join(ex_path)]
              /\ /\ Len(ex_raw.rows) > 0
                 /\ Join(ex_path) \in ex_raw.columns
                 /\ ~isna(ex_raw.rows[1][Join(ex_path)])
                 => ex_out = ex_raw.rows[1][Join(ex_path)]

\* the walk of a two-segment path through a nested map reached a value
C26_Witness ==
    /\ ex_out # Unset
    /\ ex_raw.tag = "dict"
    /\ Len(ex_path) = 2
    /\ ex_path[1] \in DOMAIN ex_raw.m
    /\ ex_raw.m[ex_path[1]].k = "map"
    /\ ex_path[2] \in DOMAIN ex_raw.m[ex_path[1]].m
    /\ ex_out = ex_raw.m[ex_path[1]].m[ex_path[2]]
    /\ ex_out.k = "str" /\ ex_out.s # ""

(***************************************************************************)
(* History of one _collect_stock_info call and of one batch                *)
(***************************************************************************)
\* sw_symbol went through _collect_stock_info and lines 85-90 in the batch
\* that is being processed
JustRecorded ==
    /\ sw_pc = "symbol"
    /\ sw_info # SwUnset
    /\ sw_batch_size > 0
    /\ sw_symbol \in SeqToSet(Slice(sw_symbols, sw_i, sw_batch_size))

\* the collectors get_stock_info was called on for sw_symbol
TriedCollectors == {sw_tried[i].collector : i \in 1..Len(sw_tried)}

\* every registered collector was called for sw_symbol and raised
AllCollectorsRaised ==
    /\ sw_collectors # << >>
    /\ TriedCollectors = SeqToSet(sw_collectors)
    /\ \A i \in 1..Len(sw_tried) : sw_tried[i].outcome \notin {"info", "none"}

\* the positions of the error entries of a symbol
EntriesFor(errors, symbol) == {i \in 1..Len(errors) : errors[i].symbol = symbol}

(***************************************************************************)
(* C21  When every collector raised for a symbol, the symbol is counted as *)
(* failed and has exactly one error entry, whose text is the message of an *)
(* exception a collector raised for it.                                    *)
(***************************************************************************)
C21_ErrorCarriesMessage ==
    JustRecorded /\ AllCollectorsRaised =>
        /\ sw_batch_results.failed >= 1
        /\ sw_info = SwNone
        /\ Cardinality(EntriesFor(sw_batch_results.errors, sw_symbol)) = 1
        /\ \A i \in EntriesFor(sw_batch_results.errors, sw_symbol) :
              \E j \in 1..Len(sw_tried) :
                  sw_batch_results.errors[i].text =
                      MessageOf(sw_tried[j].outcome, sw_tried[j].collector)

RegIndex(name) == CHOOSE i \in 1..Len(sw_collectors) : sw_collectors[i] = name

PreferredRegistered ==
    sw_preferred # "None" /\ sw_preferred \in SeqToSet(sw_collectors)

\* collector y is to be tried before collector z
TriedBefore(y, z) ==
    /\ y # z
    /\ IF PreferredRegistered /\ y = sw_preferred THEN TRUE
       ELSE IF PreferredRegistered /\ z = sw_preferred THEN FALSE
       ELSE RegIndex(y) < RegIndex(z)

C28_Statistics ==
    /\ sw_pc = "done" =>
          /\ sw_results.total = Len(sw_symbols)
          /\ sw_results.success + sw_results.failed = sw_results.total
          /\ Len(sw_results.errors) = sw_results.failed
    /\ sw_pc = "merge" => sw_batch_results.success = Len(sw_stock_infos)

(***************************************************************************)
(* C29  When no provider function yields any field for the symbol,         *)
(* add_stock raises ValueError and the repository upsert does not run.     *)
(***************************************************************************)
NoProviderYields ==
    \A i \in 1..Len(API_PRIORITY_CONFIG) : Offered(i) = EmptyDict

C29_NoDataRejected ==
    svc_outcome \notin {"idle", "running"} /\ NoProviderYields =>
        /\ svc_outcome = "ValueError"
        /\ svc_upsert = SvcNoUpsert

(***************************************************************************)
(* C30  _retry_on_failure calls func at most max_retries + 1 times; only a *)
(* NetworkError or an APIError is followed by another call; it returns at  *)
(* the first call that succeeds, re-raises any other exception at once,    *)
(* and raises RetryExhaustedError only after max_retries + 1 calls that    *)
(* all failed with NetworkError or APIError.                               *)
(***************************************************************************)
C30_RetryBound ==
    rt_pc \notin {"idle", "start"} =>
        /\ Len(rt_calls) <= rt_max_retries + 1
        /\ \A i \in 1..(Len(rt_calls) - 1) : rt_calls[i] \in {"NetworkError", "APIError"}
        /\ rt_pc = "returned" <=>
              rt_calls # << >> /\ rt_calls[Len(rt_calls)] = "ok"
        /\ rt_pc = "raised" <=>
              /\ rt_calls # << >>
              /\ rt_calls[Len(rt_calls)] \notin {"ok", "NetworkError", "APIError"}
        /\ rt_pc \in {"after_loop", "RetryExhaustedError"} =>
              /\ Len(rt_calls) = rt_max_retries + 1
              /\ \A i \in 1..Len(rt_calls) : rt_calls[i] \in {"NetworkError", "APIError"}
        /\ rt_pc = "loop" => Len(rt_calls) = rt_attempt /\ Len(rt_slept) = rt_attempt

\* max_retries = 2: three calls failed, with NetworkError and with APIError,
\* two delays were slept, and RetryExhaustedError was raised
C30_Witness ==
    /\ rt_pc = "RetryExhaustedError"
    /\ rt_arg = RtInt(2)
    /\ Len(rt_calls) = 3
    /\ "NetworkError" \in SeqToSet(rt_calls)
    /\ "APIError" \in SeqToSet(rt_calls)
    /\ Len(rt_slept) = 2


====
